---- MODULE Spec2Model ----
(***************************************************************************)
(* A model of project-factory, a content-dispatch pipeline: inputs are     *)
(* classified by their leading bytes, dispatched to a plugin subprocess,   *)
(* and the plugin's output is framed as JSON records or fed back as new    *)
(* inputs.                                                                 *)
(*                                                                         *)
(*   SpecOut  output.rs copy_output, character by character               *)
(*   SpecPre  pre_process.rs pre_process and the delivery of the chained   *)
(*            reader in input.rs run_task, byte by byte                    *)
(*   Spec     thread.rs Pool, input.rs Input::handle / run_task and        *)
(*            output.rs Output::handle as interleaved threads              *)
(*   SpecTwo  Spec with one output worker more                             *)
(*   SpecErr  Spec with children that fail and writes that fail            *)
(*   SpecWalk walk.rs walk_dir on a file system with symbolic links        *)
(***************************************************************************)
EXTENDS Integers, Sequences, FiniteSets, Bags, TLC

\* ------------------------------------------------------------------ bounds
\* longest stream (in characters) handed to copy_output in SpecOut
MaxStream == 4
\* input workers and output workers of the Pool (add_input_threads(num),
\* add_output_threads(num))
NumIn == 1
NumOut == 1
\* seed Inputs the producer sends before it calls join()
MaxSeeds == 1
\* Inputs made by one factory in a run (last_id stays below it)
MaxId == 3
\* lines a pipe holds before its writer blocks
PipeCap == 1
\* depth of the file systems walk_dir is run on in SpecWalk
TreeDepth == 2
\* longest path below the root (in components) walk_dir reads in SpecWalk
WalkMaxLen == 3

\* ------------------------------------------------------- program constants
\* pre_process.rs: Vec::with_capacity(4096), take(4096)
PREFIX == 4096

VARIABLES
    co_reader,   \* SpecOut: what is left of the BufRead `output`
    co_line,     \* SpecOut: the line read_line returned last (in_buf)
    co_exit,     \* SpecOut: the bytes written to `exit`, in order
    co_calls,    \* SpecOut: number of write_all calls made
    pre_kind,    \* SpecPre: the InputData variant: File, Stdin or Stdout
    pre_orig,    \* SpecPre (history): the bytes of the input as it arrived
    pre_file,    \* SpecPre: the content of the Input's file (File only)
    pre_data,    \* SpecPre: what is left in the reader `data`
    pre_buf,     \* SpecPre: buf of pre_process
    pre_pp,      \* SpecPre: the PreProcessor
    pre_plugin,  \* SpecPre: the prepared plugin of the PreProcessedInput
    pre_chain,   \* SpecPre: what is left in ppi.data, the chained reader
    pre_got,     \* SpecPre: the bytes the subprocess has for its input
    pre_pc,      \* SpecPre: take, run, done or skipped
    config,          \* Spec: the Config, file type -> header and plugin
    offer,           \* Spec: the contents the producer has to send
    input_queue,     \* Spec: Pool.input_sender / input_receiver
    output_queue,    \* Spec: Pool.output_sender / output_receiver
    activity_queue,  \* Spec: Pool.activity_sender / activity_receiver
    active_threads,  \* Spec: Pool.active_threads
    join_pc,         \* Spec: where the producer / Pool::join stands
    seeded,          \* Spec: seed Inputs sent so far
    last_id,         \* Spec: InputFactory.last_id
    ih,              \* Spec: the threads running InputHandler (pool and ad-hoc)
    oh,              \* Spec: the output workers (run_thread with handle_output)
    child,           \* Spec: the plugin subprocesses, by the number of their task
    fs,              \* Spec: the regular files, path -> content
    dirs,            \* Spec: the directories
    stdin,           \* Spec: the bytes of the engine's standard input
    exit,            \* Spec: the bytes written to the output sink
    created,         \* Spec (history): every Input new_input made, in order
    read_out,        \* Spec (history): paths of the Output File(..) read to their end
    w_tree,      \* SpecWalk: the file system below the root, path -> entry
    w_dirs,      \* SpecWalk: walk_dir's stack `dirs`, paths below the root
    w_sent,      \* SpecWalk: the calls of `send` made, in order
    w_seen,      \* SpecWalk (history): the directories read_dir was called on
    w_pc,        \* SpecWalk: walk, done or err
    w_err,       \* SpecWalk (history): the path whose read failed, or NoPath
    w_order,     \* SpecWalk (history): the entries read_dir gave when it failed
    pr_plugin,   \* SpecPrep: the Plugin handed to prep_process
    pr_infile,   \* SpecPrep: the input_file handed to prep_process, or None
    pr_draws,    \* SpecPrep (history): the values rand::random returned
    pr_paths,    \* SpecPrep (history): the paths gen_path returned
    pr_proc,     \* SpecPrep: the PreppedProcess being built
    pr_pc,       \* SpecPrep: input, output, build or done
    cnt_count,   \* SpecCount: the count of ProcessCount
    cnt_pc,      \* SpecCount: where run() stands: incr, spawn, join, done or err
    cnt_entry,   \* SpecCount: the number of the entry run() is at
    cnt_child,   \* SpecCount: the children: none, running, exited or waited
    cnt_queue,   \* SpecCount: the jobs queued in the thread pool tp
    cnt_active,  \* SpecCount: the jobs the threads of tp run
    g_pc,        \* SpecGlob: where the caller of run_process and join stands
    g_kind,      \* SpecGlob: the plugin of the caller's input
    g_sum,       \* SpecGlob: the sum of the counts join has read so far
    g_child,     \* SpecGlob: the children, by the number of their task
    g_queue,     \* SpecGlob: the jobs queued in the primary and secondary pool
    g_active,    \* SpecGlob: the jobs the threads of the two pools run
    g_sink       \* SpecGlob: the tasks whose output is in the sink, whole

poolvars == <<config, offer, input_queue, output_queue, activity_queue, active_threads,
              join_pc, seeded, last_id, ih, oh, child, fs, dirs, stdin, exit,
              created, read_out>>
covars == <<co_reader, co_line, co_exit, co_calls>>
prevars == <<pre_kind, pre_orig, pre_file, pre_data, pre_buf, pre_pp, pre_plugin,
             pre_chain, pre_got, pre_pc>>
walkvars == <<w_tree, w_dirs, w_sent, w_seen, w_pc, w_err, w_order>>
prepvars == <<pr_plugin, pr_infile, pr_draws, pr_paths, pr_proc, pr_pc>>
countvars == <<cnt_count, cnt_pc, cnt_entry, cnt_child, cnt_queue, cnt_active>>
globvars == <<g_pc, g_kind, g_sum, g_child, g_queue, g_active, g_sink>>
vars == <<covars, prevars, poolvars, walkvars, prepvars, countvars, globvars>>

\* ------------------------------------------------------------ sequences
RECURSIVE SeqsUpTo(_, _)
SeqsUpTo(S, n) ==
    IF n = 0 THEN {<<>>}
    ELSE LET shorter == SeqsUpTo(S, n - 1)
         IN  shorter \cup {Append(s, c) : s \in {x \in shorter : Len(x) = n - 1}, c \in S}

Last(s) == s[Len(s)]
Front(s) == SubSeq(s, 1, Len(s) - 1)

\* ---------------------------------------------------- output.rs copy_output
NEWLINE == "\n"

\* the characters a plugin's output line is made of in this model
LineChars == {"1", "a", "\"", " ", "\t", "\r"}

\* char::is_whitespace for the characters of the model (str::trim_end)
IsWhitespace(c) == c \in {" ", "\t", "\n", "\r"}

\* BufRead::read_line: everything up to and including the first newline,
\* or up to the end of the stream
RECURSIVE ReadLineLen(_)
ReadLineLen(r) ==
    IF r = <<>> THEN 0
    ELSE IF Head(r) = NEWLINE THEN 1
    ELSE 1 + ReadLineLen(Tail(r))

ReadLine(r) == SubSeq(r, 1, ReadLineLen(r))
AfterLine(r) == SubSeq(r, ReadLineLen(r) + 1, Len(r))

\* str::trim_end: all trailing whitespace goes
RECURSIVE TrimEnd(_)
TrimEnd(s) ==
    IF s = <<>> THEN s
    ELSE IF IsWhitespace(Last(s)) THEN TrimEnd(Front(s))
    ELSE s

RECURSIVE TrimStart(_)
TrimStart(s) ==
    IF s = <<>> THEN s
    ELSE IF IsWhitespace(Head(s)) THEN TrimStart(Tail(s))
    ELSE s

\* serde_json::from_str on the characters of the model: JSON whitespace
\* around one value; the values are numbers (digits) and strings (a quote,
\* characters that are neither quote nor control character, a quote)
IsDigits(s) == s # <<>> /\ \A i \in 1..Len(s) : s[i] = "1"
IsQuoted(s) ==
    /\ Len(s) >= 2
    /\ s[1] = "\"" /\ s[Len(s)] = "\""
    /\ \A i \in 2..(Len(s) - 1) : s[i] \in {"1", "a", " "}
JsonCore(s) == TrimEnd(TrimStart(s))
JsonValid(s) == IsDigits(JsonCore(s)) \/ IsQuoted(JsonCore(s))
JsonParse(s) ==
    IF IsDigits(JsonCore(s)) THEN [t |-> "number", v |-> JsonCore(s)]
    ELSE [t |-> "string", v |-> SubSeq(JsonCore(s), 2, Len(JsonCore(s)) - 1)]
ValueString(s) == [t |-> "string", v |-> s]

\* Map::insert
MapInsert(m, k, v) == [x \in DOMAIN m \cup {k} |-> IF x = k THEN v ELSE m[x]]

\* lines 126-130: the map built before the loop
LineMap(plugin_name, item_path, item_type) ==
    MapInsert(MapInsert(MapInsert(<<>>, "plugin", plugin_name), "path", item_path),
              "type", item_type)

\* lines 132-136: the payload of one line
LineData(in_buf) ==
    LET s == TrimEnd(in_buf)
    IN  IF JsonValid(s) THEN JsonParse(s) ELSE ValueString(s)

\* What a buffer of bytes for the sink is made of: a serialised JSON object
\* (serde_json::to_writer; its bytes are never split by the code) and the
\* byte NEWLINE.
JsonBytes(object) == [b |-> "object", v |-> object]
NewlineByte == [b |-> "newline", v |-> <<>>]

\* lines 137-139: one record, then NEWLINE, in out_buf
OutBuf(line, in_buf) ==
    <<JsonBytes(MapInsert(line, "data", LineData(in_buf))), NewlineByte>>

RECURSIVE Flatten(_)
Flatten(ss) == IF ss = <<>> THEN <<>> ELSE Head(ss) \o Flatten(Tail(ss))

\* line 140: the write_all calls made for one out_buf
MutWriteCallsSplit(out_buf) == <<<<out_buf[1]>>, <<out_buf[2]>>>>
WriteCalls(out_buf) == <<out_buf>>

\* one turn of the while loop of copy_output (lines 131-142): read_line,
\* build the record, write it, clear the buffers
CopyOutputLine ==
    /\ co_reader # <<>>
    /\ LET in_buf == ReadLine(co_reader)
           calls == WriteCalls(OutBuf(LineMap("foo", <<>>, "script/sh"), in_buf))
       IN  /\ co_line' = in_buf
           /\ co_reader' = AfterLine(co_reader)
           /\ co_exit' = co_exit \o Flatten(calls)
           /\ co_calls' = co_calls + Len(calls)

CoInit ==
    /\ co_reader \in SeqsUpTo(LineChars \cup {NEWLINE}, MaxStream)
    /\ co_line = <<>>
    /\ co_exit = <<>>
    /\ co_calls = 0

CoIdle ==
    /\ co_reader = <<>>
    /\ co_line = <<>>
    /\ co_exit = <<>>
    /\ co_calls = 0

\* ------------------------------------------- pre_process.rs, the classifier
Min(a, b) == IF a < b THEN a ELSE b

\* (&mut data).take(4096).read_to_end(&mut buf) on a reader whose bytes are
\* all there: what goes into buf, and what stays in the reader
Take(data, n) == SubSeq(data, 1, Min(n, Len(data)))
Drop(data, n) == SubSeq(data, Min(n, Len(data)) + 1, Len(data))

\* Cursor::new(buf).chain(data), read to its end (io::copy)
MutChainDropsPrefix(buf, data) == data
Chain(buf, data) == buf \o data

\* the characters of an input of the model
InputChars == LineChars \cup {"u", "d", NEWLINE}

\* write!(head_hex, "{:02X}", byte)
HexOf(c) ==
    CASE c = "u" -> <<"7", "5">>
      [] c = "d" -> <<"6", "4">>
      [] c = "a" -> <<"6", "1">>
      [] c = "1" -> <<"3", "1">>
      [] c = "\"" -> <<"2", "2">>
      [] c = " " -> <<"2", "0">>
      [] c = "\t" -> <<"0", "9">>
      [] c = "\r" -> <<"0", "D">>
      [] OTHER -> <<"0", "A">>
RECURSIVE HeadHex(_)
HeadHex(head) == IF head = <<>> THEN <<>> ELSE HexOf(Head(head)) \o HeadHex(Tail(head))
HexChars == {"0", "1", "2", "3", "4", "5", "6", "7", "9", "A", "D"}

\* Regex::is_match for the regular expressions of the model: a regex is
\* anchored at the start and is a sequence of character classes
MutIsMatchAlways(regex, text) == TRUE
IsMatch(regex, text) ==
    /\ Len(text) >= Len(regex)
    /\ \A i \in 1..Len(regex) : text[i] \in regex[i]

\* The headers of the model's configurations
RegexU == <<{"u"}>>                           \* ^u
RegexD == <<InputChars \ {NEWLINE}, {"d"}>>   \* ^.d
HexRegexD == <<HexChars, HexChars, {"6"}, {"4"}>>   \* "^..64", hex: true

\* PreProcessor::new (lines 27-50).  `order` is the order in which this
\* instance's HashMaps hand out their keys: every HashMap instance has its
\* own.  compiled and compiled_hex are kept in that order.
PreProcessorNew(conf, order) ==
    LET IsText(t) == t \in DOMAIN conf /\ ~conf[t].header.hex
        IsHex(t) == t \in DOMAIN conf /\ conf[t].header.hex
        Compile(t) == [type |-> t, regex |-> conf[t].header.regex]
        text == SelectSeq(order, IsText)
        hex == SelectSeq(order, IsHex)
    IN  [plugins |-> [t \in DOMAIN conf |-> conf[t].plugin],
         compiled |-> [i \in 1..Len(text) |-> Compile(text[i])],
         compiled_hex |-> [i \in 1..Len(hex) |-> Compile(hex[i])]]

None == "None"

\* the first rule of `rules` that matches, as the for loops of
\* get_file_type find it
RECURSIVE FirstMatch(_, _)
FirstMatch(rules, text) ==
    IF rules = <<>> THEN None
    ELSE IF IsMatch(Head(rules).regex, text) THEN Head(rules).type
    ELSE FirstMatch(Tail(rules), text)

\* PreProcessor::get_file_type (lines 96-113)
GetFileType(pp, head) ==
    IF FirstMatch(pp.compiled, head) # None THEN FirstMatch(pp.compiled, head)
    ELSE FirstMatch(pp.compiled_hex, HeadHex(head))

\* ------------------------------------------------- plugin.rs, preparation
NoPath == <<>>

\* gen_path (lines 165-171): a random name under the working directory.
\* The model takes the name from the task the path is made for and from
\* what it is for (1 input, 2 output): a name no other call returns.
MutGenPathOne(task, role) == <<0, 1>>
GenPath(task, role) == <<task, role>>

\* prep_process (lines 103-150), with the input path and output path of
\* the prepared plugin as run_task reads them (file(), stdin(), dir(),
\* stdout()).  file_path is the existing input file, or NoPath.
Prep(plugin, file_path, task) ==
    [plugin_name |-> plugin.name,
     command |-> plugin.path,
     input_path |->
        IF plugin.input = "stdin" THEN [kind |-> "Stdin", path |-> NoPath]
        ELSE IF file_path # NoPath THEN [kind |-> "File", path |-> file_path]
        ELSE [kind |-> "File", path |-> GenPath(task, 1)],
     output_path |->
        IF plugin.output = "stdout" THEN [kind |-> "Stdout", path |-> NoPath]
        ELSE IF plugin.output = "dir" THEN [kind |-> "Dir", path |-> GenPath(task, 2)]
        ELSE [kind |-> "File", path |-> GenPath(task, 2)],
     unpacker |-> plugin.unpacker]

\* ------------------------------------------------------- the plugins' code
\* What the executables of the model write for an input: "cat" writes its
\* input, "tail" its input less the first line.
Exec(command, content) ==
    IF command = "cat" THEN content ELSE AfterLine(content)

\* a stream as the sequence of its lines
RECURSIVE LinesOf(_)
LinesOf(content) ==
    IF content = <<>> THEN <<>>
    ELSE <<ReadLine(content)>> \o LinesOf(AfterLine(content))

\* what a plugin whose output is a file or a directory says on its stdout
Chatter == <<"1", NEWLINE>>
\* the second file a plugin with a directory output leaves there
OtherFile == <<"a", NEWLINE>>

\* ------------------------------------------------- input.rs, output.rs data
\* InputData (lines 84-89) and Input (lines 35-40)
DataFile(path, temp) == [kind |-> "File", path |-> path, temp |-> temp, child |-> -1]
DataStdin == [kind |-> "Stdin", path |-> NoPath, temp |-> FALSE, child |-> -1]
DataStdout(c) == [kind |-> "Stdout", path |-> NoPath, temp |-> FALSE, child |-> c]
NoData == [kind |-> "None", path |-> NoPath, temp |-> FALSE, child |-> -1]

\* InputData::is_stdout (lines 91-98)
MutIsStdoutNever(data) == FALSE
IsStdout(data) == data.kind = "Stdout"

\* TaskId::new (output.rs lines 19-21): the current thread and the number
TaskIdNew(thread, id) == <<thread, id>>

\* AtomicU64::fetch_add(1, Relaxed) (input.rs line 28): the value stored.
\* last_id stays below MaxId, far from the end of u64.
MutFetchAddLost(v) == v
FetchAdd(v) == v + 1

\* InputFactory::new_input (lines 26-32), called on `thread` when last_id
\* holds `id`
NewInput(thread, id, item_path, data) ==
    [task_id |-> TaskIdNew(thread, id), item_path |-> item_path, data |-> data]
NoInput == [task_id |-> <<-1, 0>>, item_path |-> <<>>, data |-> NoData]

\* OutputData (output.rs lines 100-105) and Output::new (lines 40-54)
OutFile(path) == [kind |-> "File", path |-> path, child |-> -1]
OutStdout(c) == [kind |-> "Stdout", path |-> NoPath, child |-> c]
MutOutLogStdoutCopied(c) == [kind |-> "Stdout", path |-> NoPath, child |-> c]
OutLogStdout(c) == [kind |-> "LogStdout", path |-> NoPath, child |-> c]
MutOutLogStderrAsStdout(c) == [kind |-> "LogStdout", path |-> NoPath, child |-> c]
OutLogStderr(c) == [kind |-> "LogStderr", path |-> NoPath, child |-> c]
OutputNew(task_id, item_path, item_type, plugin_name, data) ==
    [task_id |-> task_id, item_path |-> item_path, item_type |-> item_type,
     plugin_name |-> plugin_name, data |-> data]
NoOutput == OutputNew(<<-1, 0>>, <<>>, None, "", [kind |-> "None", path |-> NoPath, child |-> -1])

\* ------------------------------------------------------------ the threads
\* Thread ids: the producer's thread, the input workers 1..n of
\* add_input_threads(n) with n up to PoolMax, and beyond them the thread
\* schedule_input spawns for the Input numbered n.  The output workers
\* 1..m of add_output_threads(m) make no Input and need no ThreadId.
Main == 0
PoolMax == NumIn + 1
OutMax == NumOut + 1
AdHoc(n) == PoolMax + 1 + n
IsAdHoc(t) == t > PoolMax

NoPlugin == Prep([name |-> "", path |-> "", input |-> "stdin", output |-> "stdout",
                  unpacker |-> FALSE], NoPath, 0)
NoPpi == [item_type |-> None, plugin |-> NoPlugin]

\* an InputHandler that holds the Input `input` and has not touched it
Handler(pc, pp, input) ==
    [pc |-> pc, pp |-> pp, input |-> input, buf |-> <<>>, rest |-> <<>>,
     ppi |-> NoPpi, input_exists |-> TRUE]

\* an output worker
OutWorker(pc, output) == [pc |-> pc, output |-> output, reader |-> <<>>, calls |-> <<>>]

\* the orders in which a HashMap over the file types can hand out its keys
Orders(conf) ==
    {o \in [1..Cardinality(DOMAIN conf) -> DOMAIN conf] :
        \A i, j \in DOMAIN o : i # j => o[i] # o[j]}
PreProcessors(conf) == {PreProcessorNew(conf, o) : o \in Orders(conf)}

\* the number of the task a handler works on, which names its child too
TaskOf(h) == h.input.task_id[2]

\* A plugin subprocess.  `content` is the input it has got, `in_done`
\* says that it has all of it (its input file, or its stdin up to the
\* end), `out` are the lines it has still to write to its stdout, `pipe`
\* the lines in its stdout pipe.  Its stderr stays empty and ends when
\* it exits.  `status` is its exit status, `left` says that it has left
\* its output file or the files of its output directory, `task_failed`
\* that run_task has returned an error for it.  `pipes` (history) are the
\* Outputs and Inputs run_task has made of its stderr and stdout, in the
\* order of the calls, and `fed_at` (history) is the number of them when
\* run_task began to write to its stdin, or -1.
Stdout(plugin, content) ==
    IF plugin.output_path.kind = "Stdout" THEN LinesOf(Exec(plugin.command, content))
    ELSE LinesOf(Chatter)
ChildNew(plugin, content, in_done) ==
    [plugin |-> plugin, content |-> content, in_done |-> in_done,
     out |-> IF in_done THEN Stdout(plugin, content) ELSE <<>>,
     pipe |-> <<>>, exited |-> FALSE, status |-> 0, left |-> FALSE,
     task_failed |-> FALSE, pipes |-> <<>>, fed_at |-> -1]

\* the order of the statements of run_task (lines 128-162): spawn and the
\* stderr, then the stdout, then the copy to the stdin of a plugin that
\* reads it, then wait()
MutStepAfterAgain(pc, plugin) ==
    IF pc = "run" THEN "route"
    ELSE IF pc = "route" THEN (IF plugin.input_path.kind = "Stdin" THEN "feed" ELSE "run")
    ELSE "wait"
MutStepAfterFeedFirst(pc, plugin) ==
    IF pc = "run" THEN (IF plugin.input_path.kind = "Stdin" THEN "feed" ELSE "route")
    ELSE IF pc = "feed" THEN "route"
    ELSE "wait"
StepAfter(pc, plugin) ==
    IF pc = "run" THEN "route"
    ELSE IF pc = "route" THEN (IF plugin.input_path.kind = "Stdin" THEN "feed" ELSE "wait")
    ELSE "wait"

\* the end of a child's stdout pipe: nothing in it and no writer left
PipeEof(c) == child[c].pipe = <<>> /\ child[c].exited

\* files of the directory dir (walk.rs walk_dir finds them in any order)
FilesUnder(dir) ==
    {p \in DOMAIN fs : Len(p) > Len(dir) /\ SubSeq(p, 1, Len(dir)) = dir}
SeqsOf(S) ==
    {o \in [1..Cardinality(S) -> S] : \A i, j \in DOMAIN o : i # j => o[i] # o[j]}
\* walk_dir line 17-18: parent_path extended by the path below the root
MutWalkItemPathFlat(parent_path, dir, p) == Append(parent_path, Last(p))
MutWalkItemPathParent(parent_path, dir, p) == parent_path
WalkItemPath(parent_path, dir, p) == parent_path \o SubSeq(p, Len(dir) + 1, Len(p))

Remove(f, x) == [y \in DOMAIN f \ {x} |-> f[y]]

\* Input::handle lines 61-63: the file of an Input File(path, temp) goes
\* when temp is set
MutRemoveTempNever(files, data) == files
RemoveTemp(files, data) ==
    IF data.kind = "File" /\ data.temp THEN Remove(files, data.path) ELSE files

\* ------------------------------------------------ thread.rs InputHandler
\* a handler is done with its Input: a pool worker goes on to send its
\* idle marker (run_thread line 104), an ad-hoc thread ends
MutFinishedEnds(t) == Remove(ih, t)
MutFinishedNoIdle(t) ==
    IF IsAdHoc(t) THEN Remove(ih, t)
    ELSE [ih EXCEPT ![t] = Handler("recv", ih[t].pp, NoInput)]
Finished(t) ==
    IF IsAdHoc(t) THEN Remove(ih, t)
    ELSE [ih EXCEPT ![t] = Handler("idle", ih[t].pp, NoInput)]

\* the markers of run_thread: activity_sender.send(true) before the
\* handler (line 102), activity_sender.send(false) after it (line 104)
MutBusyMarkerIdle == FALSE
BusyMarker == TRUE
IdleMarker == FALSE

\* run_thread line 101 for an input worker: receiver.recv()
InputRecv(t) ==
    /\ t \in DOMAIN ih /\ ~IsAdHoc(t)
    /\ ih[t].pc = "recv"
    /\ input_queue # <<>>
    /\ ih' = [ih EXCEPT ![t] = Handler("busy", ih[t].pp, Head(input_queue))]
    /\ input_queue' = Tail(input_queue)
    /\ UNCHANGED <<config, offer, output_queue, activity_queue, active_threads, join_pc,
                   seeded, last_id, oh, child, fs, dirs, stdin, exit, created, read_out>>

\* run_thread line 102: activity_sender.send(true)
InputBusy(t) ==
    /\ t \in DOMAIN ih
    /\ ih[t].pc = "busy"
    /\ activity_queue' = Append(activity_queue, BusyMarker)
    /\ ih' = [ih EXCEPT ![t].pc = "handle"]
    /\ UNCHANGED <<config, offer, input_queue, output_queue, active_threads, join_pc,
                   seeded, last_id, oh, child, fs, dirs, stdin, exit, created, read_out>>

\* run_thread line 104: activity_sender.send(false), and back to recv
InputIdle(t) ==
    /\ t \in DOMAIN ih
    /\ ih[t].pc = "idle"
    /\ activity_queue' = Append(activity_queue, IdleMarker)
    /\ ih' = [ih EXCEPT ![t].pc = "recv"]
    /\ UNCHANGED <<config, offer, input_queue, output_queue, active_threads, join_pc,
                   seeded, last_id, oh, child, fs, dirs, stdin, exit, created, read_out>>

\* One read of a ChildStdout by the thread that handles it: inside
\* take(4096).read_to_end (pre_process line 60), which goes on until 4096
\* bytes or the end, or inside io::copy(&mut ppi.data, ..) (run_task line
\* 121 or 159), which goes on until the end
ReadPipe(t) ==
    /\ t \in DOMAIN ih
    /\ IsStdout(ih[t].input.data)
    /\ LET h == ih[t]
           c == h.input.data.child
           chunk == Head(child[c].pipe)
           taking == h.pc = "handle"
           n == IF taking THEN Min(PREFIX - Len(h.buf), Len(chunk)) ELSE Len(chunk)
       IN  /\ \/ taking /\ Len(h.buf) < PREFIX
              \/ h.pc = "run" /\ h.ppi.plugin.input_path.kind = "File"
              \/ h.pc = "feed"
           /\ child[c].pipe # <<>>
           /\ ih' = IF taking THEN [ih EXCEPT ![t].buf = @ \o Take(chunk, n)]
                    ELSE [ih EXCEPT ![t].rest = @ \o chunk]
           /\ child' = [child EXCEPT ![c].pipe =
                            IF n = Len(chunk) THEN Tail(@)
                            ELSE <<Drop(chunk, n)>> \o Tail(@)]
    /\ UNCHANGED <<config, offer, input_queue, output_queue, activity_queue,
                   active_threads, join_pc, seeded, last_id, oh, fs, dirs, stdin, exit,
                   created, read_out>>

\* Input::handle lines 50-58, 65-68, 72-75 with pre_process lines 59-93:
\* open the data, read the prefix, classify, prepare the plugin.  A miss
\* goes on to lines 61-63 and 80.
PreProcess(t) ==
    /\ t \in DOMAIN ih
    /\ ih[t].pc = "handle"
    /\ LET h == ih[t]
           data == h.input.data
           missing == data.kind = "File" /\ data.path \notin DOMAIN fs
           content == IF data.kind = "File" THEN fs[data.path] ELSE stdin
           buf == IF IsStdout(data) THEN h.buf ELSE Take(content, PREFIX)
           rest == IF IsStdout(data) THEN <<>> ELSE Drop(content, PREFIX)
           type == GetFileType(h.pp, buf)
           file_path == IF data.kind = "File" THEN data.path ELSE NoPath
       IN  /\ IsStdout(data) => Len(h.buf) = PREFIX \/ PipeEof(data.child)
           /\ IF missing
                 THEN \* File::open(&path)? returns the error
                      /\ ih' = Finished(t)
                      /\ fs' = fs
              ELSE IF type = None \/ type \notin DOMAIN h.pp.plugins
                 THEN \* Ok(None): no task; a temporary file goes
                      /\ ih' = Finished(t)
                      /\ fs' = RemoveTemp(fs, data)
              ELSE /\ ih' = [ih EXCEPT ![t] =
                              [h EXCEPT !.pc = "run", !.buf = buf, !.rest = rest,
                                        !.ppi = [item_type |-> type,
                                                 plugin |-> Prep(h.pp.plugins[type],
                                                                 file_path, TaskOf(h))]]]
                   /\ fs' = fs
    /\ UNCHANGED <<config, offer, input_queue, output_queue, activity_queue,
                   active_threads, join_pc, seeded, last_id, oh, child, dirs, stdin,
                   exit, created, read_out>>

\* run_task lines 111-135: make the input file if it is not there, make
\* the output directory, spawn the child, send its stderr to the output
\* queue
Spawn(t) ==
    /\ t \in DOMAIN ih
    /\ ih[t].pc = "run"
    /\ LET h == ih[t]
           plugin == h.ppi.plugin
           input_exists == IF plugin.input_path.kind = "File"
                           THEN plugin.input_path.path \in DOMAIN fs ELSE TRUE
           fs1 == IF input_exists THEN fs
                  ELSE (plugin.input_path.path :> Chain(h.buf, h.rest)) @@ fs
           c == TaskOf(h)
           stderr == OutputNew(h.input.task_id, h.input.item_path, h.ppi.item_type,
                               plugin.plugin_name, OutLogStderr(c))
           spawned == IF plugin.input_path.kind = "File"
                      THEN ChildNew(plugin, fs1[plugin.input_path.path], TRUE)
                      ELSE ChildNew(plugin, <<>>, FALSE)
       IN  /\ ~input_exists /\ IsStdout(h.input.data) => PipeEof(h.input.data.child)
           /\ fs' = fs1
           /\ dirs' = IF plugin.output_path.kind = "Dir"
                      THEN dirs \cup {plugin.output_path.path} ELSE dirs
           /\ child' = (c :> [spawned EXCEPT !.pipes = <<stderr>>]) @@ child
           /\ output_queue' = Append(output_queue, stderr)
           /\ ih' = [ih EXCEPT ![t].pc = StepAfter("run", plugin),
                               ![t].input_exists = input_exists]
    /\ UNCHANGED <<config, offer, input_queue, activity_queue, active_threads, join_pc,
                   seeded, last_id, oh, stdin, exit, created, read_out>>

\* schedule_input (thread.rs lines 140-163): a ChildStdout gets a thread of
\* its own, with its own PreProcessor pp; anything else goes to the queue.
\* The threads and the input queue after the call:
ScheduleThreads(threads, input, pp) ==
    IF IsStdout(input.data)
    THEN (AdHoc(input.task_id[2]) :> Handler("handle", pp, input)) @@ threads
    ELSE threads
ScheduleQueue(queue, input) ==
    IF IsStdout(input.data) THEN queue ELSE Append(queue, input)
RECURSIVE ScheduleQueueAll(_, _)
ScheduleQueueAll(queue, inputs) ==
    IF inputs = <<>> THEN queue
    ELSE ScheduleQueueAll(ScheduleQueue(queue, Head(inputs)), Tail(inputs))

\* the item_path of the Input made of an unpacker's stdout (run_task line
\* 139) or output file (line 192): the task's own
MutDerivedItemPathLost(item_path) == <<>>
DerivedItemPath(item_path) == item_path

\* run_task lines 136-157: the child's stdout goes to its one consumer
Route(t) ==
    /\ t \in DOMAIN ih
    /\ ih[t].pc = "route"
    /\ LET h == ih[t]
           plugin == h.ppi.plugin
           c == TaskOf(h)
           next == StepAfter("route", plugin)
           out(data) == OutputNew(h.input.task_id, h.input.item_path, h.ppi.item_type,
                                  plugin.plugin_name, data)
       IN  IF plugin.output_path.kind = "Stdout" /\ plugin.unpacker
           THEN /\ last_id < MaxId
                /\ \E pp \in PreProcessors(config) :
                      LET input == NewInput(t, last_id, DerivedItemPath(h.input.item_path),
                                            DataStdout(c))
                      IN  /\ ih' = ScheduleThreads([ih EXCEPT ![t].pc = next], input, pp)
                          /\ input_queue' = ScheduleQueue(input_queue, input)
                          /\ created' = Append(created, input)
                          /\ child' = [child EXCEPT ![c].pipes = Append(@, input)]
                /\ last_id' = FetchAdd(last_id)
                /\ UNCHANGED output_queue
           ELSE LET stdout == out(IF plugin.output_path.kind = "Stdout"
                                  THEN OutStdout(c) ELSE OutLogStdout(c))
                IN  /\ output_queue' = Append(output_queue, stdout)
                    /\ child' = [child EXCEPT ![c].pipes = Append(@, stdout)]
                    /\ ih' = [ih EXCEPT ![t].pc = next]
                    /\ UNCHANGED <<input_queue, last_id, created>>
    /\ UNCHANGED <<config, offer, activity_queue, active_threads, join_pc,
                   seeded, oh, fs, dirs, stdin, exit, read_out>>

\* run_task lines 158-162: the whole of the task's data goes to the child's
\* stdin, and wait() closes the stdin before it blocks
Feed(t) ==
    /\ t \in DOMAIN ih
    /\ ih[t].pc = "feed"
    /\ LET h == ih[t]
           c == TaskOf(h)
           content == Chain(h.buf, h.rest)
       IN  /\ IsStdout(h.input.data) => PipeEof(h.input.data.child)
           /\ ~child[c].exited
           /\ child' = [child EXCEPT ![c] =
                            [ChildNew(child[c].plugin, content, TRUE)
                                EXCEPT !.pipes = child[c].pipes,
                                       !.fed_at = Len(child[c].pipes)]]
           /\ ih' = [ih EXCEPT ![t].pc = StepAfter("feed", h.ppi.plugin)]
    /\ UNCHANGED <<config, offer, input_queue, output_queue, activity_queue, active_threads,
                   join_pc, seeded, last_id, oh, fs, dirs, stdin, exit, created, read_out>>

\* the Inputs or Outputs run_task makes of the output path once the child
\* has exited (lines 168-205), for the files in the order `found`
RECURSIVE NewInputs(_, _, _, _, _)
NewInputs(t, id, parent_path, dir, found) ==
    IF found = <<>> THEN <<>>
    ELSE <<NewInput(t, id, WalkItemPath(parent_path, dir, Head(found)),
                    DataFile(Head(found), TRUE))>>
         \o NewInputs(t, FetchAdd(id), parent_path, dir, Tail(found))

\* run_task line 162, child.wait()?: the status the child exited with is
\* dropped, whatever it is
MutWaitOkZero(status) == status = 0
WaitOk(status) == TRUE

\* run_task lines 162-206 and Input::handle lines 61-63: child.wait(), the
\* temporary input file goes, the output file or the files of the output
\* directory are sent on, the temporary file of the Input goes
Wait(t) ==
    /\ t \in DOMAIN ih
    /\ ih[t].pc = "wait"
    /\ child[TaskOf(ih[t])].exited
    /\ LET h == ih[t]
           plugin == h.ppi.plugin
           opath == plugin.output_path
           fs1 == IF h.input_exists THEN fs ELSE Remove(fs, plugin.input_path.path)
           fs2 == RemoveTemp(fs1, h.input.data)
           out(p) == OutputNew(h.input.task_id, h.input.item_path, h.ppi.item_type,
                               plugin.plugin_name, OutFile(p))
       IN  IF ~WaitOk(child[TaskOf(h)].status)
           THEN \* an error leaves run_task and Input::handle at once
                /\ ih' = Finished(t)
                /\ UNCHANGED <<fs, input_queue, output_queue, last_id, created>>
           ELSE
           /\ fs' = fs2
           /\ ih' = Finished(t)
           /\ \E found \in (IF opath.kind = "Dir" THEN SeqsOf(FilesUnder(opath.path))
                              ELSE IF opath.kind = "File" THEN {<<opath.path>>}
                              ELSE {<<>>}) :
                IF plugin.unpacker
                THEN LET parent == IF opath.kind = "Dir" THEN h.input.item_path
                                   ELSE DerivedItemPath(h.input.item_path)
                         dir == IF opath.kind = "Dir" THEN opath.path ELSE <<>>
                         new == IF opath.kind = "Dir"
                                THEN NewInputs(t, last_id, parent, dir, found)
                                ELSE NewInputs(t, last_id, parent, Head(found), found)
                     IN  /\ last_id + Len(found) <= MaxId
                         /\ input_queue' = ScheduleQueueAll(input_queue, new)
                         /\ created' = created \o new
                         /\ last_id' = IF new = <<>> THEN last_id
                                        ELSE FetchAdd(new[Len(new)].task_id[2])
                         /\ UNCHANGED output_queue
                ELSE /\ output_queue' = output_queue \o [i \in 1..Len(found) |-> out(found[i])]
                     /\ UNCHANGED <<input_queue, last_id, created>>
    /\ UNCHANGED <<config, offer, activity_queue, active_threads, join_pc, seeded, oh,
                   child, dirs, stdin, exit, read_out>>

\* ------------------------------------------------------- the subprocesses
\* a child writes the next line to its stdout pipe, which has room
ChildWrite(c) ==
    /\ c \in DOMAIN child
    /\ ~child[c].exited
    /\ child[c].in_done
    /\ child[c].out # <<>>
    /\ Len(child[c].pipe) < PipeCap
    /\ child' = [child EXCEPT ![c].pipe = Append(@, Head(child[c].out)),
                              ![c].out = Tail(@)]
    /\ UNCHANGED <<config, offer, input_queue, output_queue, activity_queue, active_threads,
                   join_pc, seeded, last_id, ih, oh, fs, dirs, stdin, exit, created,
                   read_out>>

\* the files once the child c has left its output file, or the files of
\* its output directory
Leaves(c) ==
    LET plugin == child[c].plugin
        opath == plugin.output_path
        result == Exec(plugin.command, child[c].content)
    IN  IF opath.kind = "File" THEN (opath.path :> result) @@ fs
        ELSE IF opath.kind = "Dir"
             THEN (Append(opath.path, 1) :> result)
                  @@ (Append(opath.path, 2) :> OtherFile) @@ fs
        ELSE fs

\* a child that has written all it has to say leaves its output file, or
\* the files of its output directory, and exits
ChildExit(c) ==
    /\ c \in DOMAIN child
    /\ ~child[c].exited
    /\ child[c].in_done
    /\ child[c].out = <<>>
    /\ fs' = Leaves(c)
    /\ child' = [child EXCEPT ![c].exited = TRUE, ![c].left = TRUE]
    /\ UNCHANGED <<config, offer, input_queue, output_queue, activity_queue, active_threads,
                   join_pc, seeded, last_id, ih, oh, dirs, stdin, exit, created,
                   read_out>>

\* a child that fails: it exits with the status 1 at any point of its
\* run, with its output left behind when its work was done, or without
ChildFail(c) ==
    /\ c \in DOMAIN child
    /\ ~child[c].exited
    /\ \E left \in BOOLEAN :
          /\ left => child[c].in_done /\ child[c].out = <<>>
          /\ fs' = IF left THEN Leaves(c) ELSE fs
          /\ child' = [child EXCEPT ![c].exited = TRUE, ![c].status = 1,
                                    ![c].left = left, ![c].out = <<>>]
    /\ UNCHANGED <<config, offer, input_queue, output_queue, activity_queue, active_threads,
                   join_pc, seeded, last_id, ih, oh, dirs, stdin, exit, created,
                   read_out>>

\* run_task line 160, io::copy(..)?: the write to the child's stdin fails,
\* the child has exited or has closed its stdin after the first lines of
\* the data, and the error leaves run_task: no wait(), no cleanup
FeedFails(t) ==
    /\ t \in DOMAIN ih
    /\ ih[t].pc = "feed"
    /\ LET h == ih[t]
           c == TaskOf(h)
           lines == LinesOf(Chain(h.buf, h.rest))
       IN  /\ IsStdout(h.input.data) => PipeEof(h.input.data.child)
           /\ lines # <<>>
           /\ IF child[c].exited
              THEN child' = [child EXCEPT ![c].task_failed = TRUE,
                                          ![c].fed_at = Len(child[c].pipes)]
              ELSE \E n \in 1..(Len(lines) - 1) :
                      child' = [child EXCEPT ![c] =
                                   [ChildNew(child[c].plugin, Flatten(SubSeq(lines, 1, n)), TRUE)
                                       EXCEPT !.task_failed = TRUE,
                                              !.pipes = child[c].pipes,
                                              !.fed_at = Len(child[c].pipes)]]
           /\ ih' = Finished(t)
    /\ UNCHANGED <<config, offer, input_queue, output_queue, activity_queue, active_threads,
                   join_pc, seeded, last_id, oh, fs, dirs, stdin, exit, created, read_out>>

\* run_task lines 111-128, command.spawn()?: the input file and the output
\* directory are made, the plugin's program cannot be started, and the error
\* leaves run_task and Input::handle
SpawnFails(t) ==
    /\ t \in DOMAIN ih
    /\ ih[t].pc = "run"
    /\ LET h == ih[t]
           plugin == h.ppi.plugin
           input_exists == IF plugin.input_path.kind = "File"
                           THEN plugin.input_path.path \in DOMAIN fs ELSE TRUE
       IN  /\ ~input_exists /\ IsStdout(h.input.data) => PipeEof(h.input.data.child)
           /\ fs' = IF input_exists THEN fs
                    ELSE (plugin.input_path.path :> Chain(h.buf, h.rest)) @@ fs
           /\ dirs' = IF plugin.output_path.kind = "Dir"
                      THEN dirs \cup {plugin.output_path.path} ELSE dirs
           /\ ih' = Finished(t)
    /\ UNCHANGED <<config, offer, input_queue, output_queue, activity_queue,
                   active_threads, join_pc, seeded, last_id, oh, child, stdin, exit,
                   created, read_out>>

\* ------------------------------------- thread.rs output workers, output.rs
\* run_thread line 101 for an output worker
OutputRecv(o) ==
    /\ o \in DOMAIN oh
    /\ oh[o].pc = "recv"
    /\ output_queue # <<>>
    /\ oh' = [oh EXCEPT ![o] = OutWorker("busy", Head(output_queue))]
    /\ output_queue' = Tail(output_queue)
    /\ UNCHANGED <<config, offer, input_queue, activity_queue, active_threads, join_pc,
                   seeded, last_id, ih, child, fs, dirs, stdin, exit, created, read_out>>

\* run_thread line 102
OutputBusy(o) ==
    /\ o \in DOMAIN oh
    /\ oh[o].pc = "busy"
    /\ activity_queue' = Append(activity_queue, BusyMarker)
    /\ oh' = [oh EXCEPT ![o].pc = "handle"]
    /\ UNCHANGED <<config, offer, input_queue, output_queue, active_threads, join_pc,
                   seeded, last_id, ih, child, fs, dirs, stdin, exit, created, read_out>>

\* run_thread line 104
OutputIdle(o) ==
    /\ o \in DOMAIN oh
    /\ oh[o].pc = "idle"
    /\ activity_queue' = Append(activity_queue, IdleMarker)
    /\ oh' = [oh EXCEPT ![o] = OutWorker("recv", NoOutput)]
    /\ UNCHANGED <<config, offer, input_queue, output_queue, active_threads, join_pc,
                   seeded, last_id, ih, child, fs, dirs, stdin, exit, created, read_out>>

\* Output::handle lines 58-80: File::open(&path); an error ends the handler
OpenFile(o) ==
    /\ o \in DOMAIN oh
    /\ oh[o].pc = "handle"
    /\ oh[o].output.data.kind = "File"
    /\ oh' = IF oh[o].output.data.path \in DOMAIN fs
             THEN [oh EXCEPT ![o].pc = "copy", ![o].reader = fs[oh[o].output.data.path]]
             ELSE [oh EXCEPT ![o].pc = "idle"]
    /\ UNCHANGED <<config, offer, input_queue, output_queue, activity_queue, active_threads,
                   join_pc, seeded, last_id, ih, child, fs, dirs, stdin, exit, created,
                   read_out>>

\* which Outputs Output::handle hands to copy_output (lines 58-65, 81-87);
\* the others go to log_output (lines 88-95)
MutCopiesAll(kind) == TRUE
Copies(kind) == kind \in {"File", "Stdout"}

\* reader.read_line(&mut in_buf) of copy_output (line 131) on a file: the
\* bytes up to the first NEWLINE and with it, or up to the end
MutCopyReadLast(reader) ==
    IF reader = <<>> THEN <<>>
    ELSE LET n == Len(reader)
             k == CHOOSE i \in 0..(n - 1) :
                    /\ i = 0 \/ reader[i] = NEWLINE
                    /\ \A j \in (i + 1)..(n - 1) : reader[j] # NEWLINE
         IN  SubSeq(reader, k + 1, n)
CopyRead(reader) == ReadLine(reader)

\* copy_output (lines 117-145) on a file or on a child's stdout: one
\* read_line with the write_all of its record, or the end of the loop
CopyOutput(o) ==
    /\ o \in DOMAIN oh
    /\ \/ oh[o].pc = "copy"
       \/ oh[o].pc = "handle" /\ oh[o].output.data.kind # "File"
    /\ Copies(oh[o].output.data.kind)
    /\ LET w == oh[o]
           out == w.output
           c == out.data.child
           from_file == out.data.kind = "File"
           line == LineMap(out.plugin_name, out.item_path, out.item_type)
           in_buf == IF from_file THEN CopyRead(w.reader) ELSE Head(child[c].pipe)
           calls == WriteCalls(OutBuf(line, in_buf))
           at_end == IF from_file THEN w.reader = <<>> ELSE PipeEof(c)
       IN  IF w.calls # <<>>
           THEN \* the next write_all of the record in hand
                /\ exit' = exit \o Head(w.calls)
                /\ oh' = [oh EXCEPT ![o].calls = Tail(@)]
                /\ UNCHANGED <<child, read_out>>
           ELSE IF at_end
           THEN \* read_line returned 0
                /\ oh' = [oh EXCEPT ![o].pc = "idle"]
                /\ read_out' = IF from_file THEN read_out \cup {out.data.path}
                               ELSE read_out
                /\ UNCHANGED <<child, exit>>
           ELSE /\ ~from_file => child[c].pipe # <<>>
                /\ exit' = exit \o Head(calls)
                /\ oh' = [oh EXCEPT ![o].pc = "copy", ![o].calls = Tail(calls),
                                    ![o].reader = IF from_file THEN AfterLine(@) ELSE @]
                /\ child' = IF from_file THEN child
                            ELSE [child EXCEPT ![c].pipe = Tail(@)]
                /\ UNCHANGED read_out
    /\ UNCHANGED <<config, offer, input_queue, output_queue, activity_queue, active_threads,
                   join_pc, seeded, last_id, ih, fs, dirs, stdin, created>>

\* log_output (lines 107-115) on a child's stdout or stderr: one read_line
\* with its log line, or the end of the loop
LogOutput(o) ==
    /\ o \in DOMAIN oh
    /\ oh[o].pc = "handle"
    /\ oh[o].output.data.kind # "File"
    /\ ~Copies(oh[o].output.data.kind)
    /\ LET c == oh[o].output.data.child
           stdout == oh[o].output.data.kind = "LogStdout"
       IN  IF stdout /\ child[c].pipe # <<>>
           THEN /\ child' = [child EXCEPT ![c].pipe = Tail(@)]
                /\ oh' = oh
           ELSE /\ child[c].exited
                /\ oh' = [oh EXCEPT ![o].pc = "idle"]
                /\ child' = child
    /\ UNCHANGED <<config, offer, input_queue, output_queue, activity_queue, active_threads,
                   join_pc, seeded, last_id, ih, fs, dirs, stdin, exit, created, read_out>>

\* --------------------------------------------- the producer and Pool::join
\* the inputs the producer has to offer
ContentD == <<"a", "d", NEWLINE, "1", NEWLINE, "a", " ">>
ContentU == <<"u", NEWLINE>> \o ContentD
ContentUD == <<"u", "d", NEWLINE, "1", NEWLINE>>
ContentNone == <<"a", NEWLINE>>
SeedContents == {ContentD, ContentU, ContentUD, ContentNone}
\* the item_path of a seed: empty for the standard input, the path below
\* the input root for a file
SeedItemPath(from_stdin) == IF from_stdin THEN <<>> ELSE <<9>>
\* the path of the n-th seed file: outside the working directory, whose
\* paths have two components or more
SeedPath(n) == <<0 - n>>

\* The producer makes a seed Input with the pool's factory and sends it to
\* pool.input_sender: a file that is there, not temporary, or the standard
\* input.
SeedUpTo(max) ==
    /\ join_pc = "seed"
    /\ seeded < max
    /\ last_id < MaxId
    /\ \E content \in offer, from_stdin \in BOOLEAN :
          LET path == SeedPath(seeded + 1)
              input == NewInput(Main, last_id, SeedItemPath(from_stdin),
                                IF from_stdin THEN DataStdin ELSE DataFile(path, FALSE))
          IN  /\ from_stdin => seeded = 0
              /\ fs' = IF from_stdin THEN fs ELSE (path :> content) @@ fs
              /\ stdin' = IF from_stdin THEN content ELSE stdin
              /\ input_queue' = Append(input_queue, input)
              /\ created' = Append(created, input)
    /\ last_id' = FetchAdd(last_id)
    /\ seeded' = seeded + 1
    /\ UNCHANGED <<config, offer, output_queue, activity_queue, active_threads, join_pc,
                   ih, oh, child, dirs, exit, read_out>>
Seed == SeedUpTo(MaxSeeds)

\* Pool::join is called (line 80); it sleeps (line 81)
JoinCall ==
    /\ join_pc = "seed"
    /\ join_pc' = "while"
    /\ UNCHANGED <<config, offer, input_queue, output_queue, activity_queue, active_threads,
                   seeded, last_id, ih, oh, child, fs, dirs, stdin, exit, created,
                   read_out>>

\* the condition of the while loop, lines 82-85, one operand of || after
\* the other: active_threads > 0 || !input_receiver.is_empty()
JoinWhileInput ==
    /\ join_pc = "while"
    /\ join_pc' = IF active_threads > 0 \/ input_queue # <<>> THEN "recv" ELSE "while_output"
    /\ UNCHANGED <<config, offer, input_queue, output_queue, activity_queue, active_threads,
                   seeded, last_id, ih, oh, child, fs, dirs, stdin, exit, created,
                   read_out>>

\* || !output_receiver.is_empty()
JoinWhileOutput ==
    /\ join_pc = "while_output"
    /\ join_pc' = IF output_queue # <<>> THEN "recv" ELSE "while_activity"
    /\ UNCHANGED <<config, offer, input_queue, output_queue, activity_queue, active_threads,
                   seeded, last_id, ih, oh, child, fs, dirs, stdin, exit, created,
                   read_out>>

\* || !activity_receiver.is_empty(); all false: join returns (lines 94-95)
JoinWhileActivity ==
    /\ join_pc = "while_activity"
    /\ join_pc' = IF activity_queue # <<>> THEN "recv" ELSE "done"
    /\ UNCHANGED <<config, offer, input_queue, output_queue, activity_queue, active_threads,
                   seeded, last_id, ih, oh, child, fs, dirs, stdin, exit, created,
                   read_out>>

\* lines 87-92: activity_receiver.recv() and the counter.  usize: taking 1
\* from 0 panics in a build with overflow checks and wraps in one without.
JoinRecv ==
    /\ join_pc = "recv"
    /\ activity_queue # <<>>
    /\ activity_queue' = Tail(activity_queue)
    /\ IF Head(activity_queue)
       THEN active_threads' = active_threads + 1 /\ join_pc' = "while"
       ELSE IF active_threads > 0
       THEN active_threads' = active_threads - 1 /\ join_pc' = "while"
       ELSE \/ active_threads' = active_threads /\ join_pc' = "panic"
            \/ active_threads' = -1 /\ join_pc' = "while"
    /\ UNCHANGED <<config, offer, input_queue, output_queue, seeded, last_id, ih, oh, child,
                   fs, dirs, stdin, exit, created, read_out>>

\* --------------------------------------------------------- configurations
Header(regex, hex) == [regex |-> regex, hex |-> hex]
Unpacker(command, input, output) ==
    [name |-> "unpack", path |-> command, input |-> input, output |-> output,
     unpacker |-> TRUE]
Processor(input, output) ==
    [name |-> "foo", path |-> "tail", input |-> input, output |-> output,
     unpacker |-> FALSE]
TextD == Header(RegexD, FALSE)
HexD == Header(HexRegexD, TRUE)
Conf(unpacker, hd, processor) ==
    [u |-> [header |-> Header(RegexU, FALSE), plugin |-> unpacker],
     d |-> [header |-> hd, plugin |-> processor]]
Configs ==
    {Conf(Unpacker("cat", "stdin", "stdout"), TextD, Processor("file", "stdout")),
     Conf(Unpacker("tail", "file", "file"), TextD, Processor("stdin", "file")),
     Conf(Unpacker("tail", "stdin", "dir"), HexD, Processor("stdin", "stdout")),
     Conf(Unpacker("tail", "file", "stdout"), HexD, Processor("file", "dir"))}
\* the configuration and the content of the pool with two output workers
ConfigTwo == Conf(Unpacker("tail", "stdin", "stdout"), HexD, Processor("file", "dir"))
ConfigTwoOut == Conf(Unpacker("tail", "stdin", "stdout"), HexD, Processor("stdin", "stdout"))

\* Pool::new (lines 30-47), add_input_threads(num_in) (48-69),
\* add_output_threads(num_out) (71-78): empty queues, no active thread, the
\* workers at their recv(), each input worker with a PreProcessor of its own
PoolNew(confs, contents, num_in, num_out) ==
    /\ config \in confs
    /\ offer = contents
    /\ input_queue = <<>>
    /\ output_queue = <<>>
    /\ activity_queue = <<>>
    /\ active_threads = 0
    /\ join_pc = "seed"
    /\ seeded = 0
    /\ last_id = 0
    /\ ih \in [1..num_in -> {Handler("recv", pp, NoInput) : pp \in PreProcessors(config)}]
    /\ oh = [o \in 1..num_out |-> OutWorker("recv", NoOutput)]
    /\ child = <<>>
    /\ fs = <<>>
    /\ dirs = {}
    /\ stdin = <<>>
    /\ exit = <<>>
    /\ created = <<>>
    /\ read_out = {}

PoolIdle ==
    /\ config = <<>>
    /\ offer = {}
    /\ input_queue = <<>>
    /\ output_queue = <<>>
    /\ activity_queue = <<>>
    /\ active_threads = 0
    /\ join_pc = "seed"
    /\ seeded = 0
    /\ last_id = 0
    /\ ih = <<>>
    /\ oh = <<>>
    /\ child = <<>>
    /\ fs = <<>>
    /\ dirs = {}
    /\ stdin = <<>>
    /\ exit = <<>>
    /\ created = <<>>
    /\ read_out = {}

\* --------------------------------------------------------------- SpecWalk
\* walk.rs walk_dir on a file system below its root.  An entry is a regular
\* file, a directory, a symbolic link to the root directory, or something
\* that is neither file nor directory (a socket, a dangling link).
WalkNames == {1, 2}
WalkKinds == {"file", "dir", "link", "special"}
Absent == "absent"
\* the root `dir` handed to walk_dir and its parent_path
WalkRoot == <<7, 8>>
WalkParent == <<9>>

RECURSIVE PathsUpTo(_)
PathsUpTo(n) ==
    IF n = 0 THEN {<<>>}
    ELSE PathsUpTo(n - 1)
         \cup {Append(p, x) : p \in {q \in PathsUpTo(n - 1) : Len(q) = n - 1},
                              x \in WalkNames}
TreePaths == PathsUpTo(TreeDepth) \ {<<>>}

\* the file systems: an entry is there only in a directory that is there
Trees ==
    {t \in [TreePaths -> WalkKinds \cup {Absent}] :
        \A p \in TreePaths : (Len(p) > 1 /\ t[p] # Absent) => t[Front(p)] = "dir"}

\* What a path leads to, symbolic links followed (fs::metadata): the path
\* of a directory or of another entry below the root, or Absent.  `at` is
\* the directory reached so far, `rest` the components still to walk.
RECURSIVE Resolve(_, _)
Resolve(at, rest) ==
    IF rest = <<>> THEN at
    ELSE LET q == Append(at, Head(rest))
         IN  IF q \notin TreePaths \/ w_tree[q] = Absent THEN Absent
             ELSE IF w_tree[q] = "link" THEN Resolve(<<>>, Tail(rest))
             ELSE IF w_tree[q] = "dir" THEN Resolve(q, Tail(rest))
             ELSE IF Tail(rest) = <<>> THEN q
             ELSE Absent
\* the part of an absolute path below the root
BelowRoot(path) == SubSeq(path, Len(WalkRoot) + 1, Len(path))
Real(path) == Resolve(<<>>, BelowRoot(path))

\* Path::is_dir and Path::is_file (lines 14 and 16): both follow links
IsDir(path) == Real(path) # Absent /\ (Real(path) = <<>> \/ w_tree[Real(path)] = "dir")
IsFile(path) == Real(path) # Absent /\ Real(path) # <<>> /\ w_tree[Real(path)] = "file"

\* dir.read_dir() (line 12): the entries of the directory, as paths
\* through `dir`
ReadDir(dir) ==
    {Append(dir, x) : x \in {y \in WalkNames :
        Append(Real(dir), y) \in TreePaths /\ w_tree[Append(Real(dir), y)] # Absent}}

\* the for loop (lines 12-21) over the entries in the order `entries`:
\* the directories pushed and the calls of send made
RECURSIVE Pushed(_)
Pushed(entries) ==
    IF entries = <<>> THEN <<>>
    ELSE (IF IsDir(Head(entries)) THEN <<Head(entries)>> ELSE <<>>)
         \o Pushed(Tail(entries))
RECURSIVE Sent(_)
Sent(entries) ==
    IF entries = <<>> THEN <<>>
    ELSE (IF ~IsDir(Head(entries)) /\ IsFile(Head(entries))
          THEN <<<<Head(entries), WalkItemPath(WalkParent, WalkRoot, Head(entries))>>>>
          ELSE <<>>)
         \o Sent(Tail(entries))

\* lines 9-10: the stack holds the root
WalkInit ==
    /\ w_tree \in Trees
    /\ w_dirs = <<WalkRoot>>
    /\ w_sent = <<>>
    /\ w_seen = <<>>
    /\ w_pc = "walk"
    /\ w_err = NoPath
    /\ w_order = <<>>

WalkIdle ==
    /\ w_tree = <<>>
    /\ w_dirs = <<>>
    /\ w_sent = <<>>
    /\ w_seen = <<>>
    /\ w_pc = "done"
    /\ w_err = NoPath
    /\ w_order = <<>>

\* one turn of the while loop (lines 11-22): dirs.pop(), read_dir, and the
\* for loop over the entries in the order read_dir gives them.  A path of
\* more than WalkMaxLen components below the root is not followed here.
WalkDir ==
    /\ w_pc = "walk"
    /\ w_dirs # <<>>
    /\ Len(BelowRoot(Last(w_dirs))) <= WalkMaxLen
    /\ LET dir == Last(w_dirs)
       IN  \E entries \in SeqsOf(ReadDir(dir)) :
              /\ w_dirs' = Front(w_dirs) \o Pushed(entries)
              /\ w_sent' = w_sent \o Sent(entries)
              /\ w_seen' = Append(w_seen, Real(dir))
    /\ UNCHANGED <<w_tree, w_pc, w_err, w_order>>

\* line 11: dirs.pop() returns None; line 23: Ok(())
WalkReturn ==
    /\ w_pc = "walk"
    /\ w_dirs = <<>>
    /\ w_pc' = "done"
    /\ UNCHANGED <<w_tree, w_dirs, w_sent, w_seen, w_err, w_order>>

\* the entries of the for loop (lines 12-21) that are through when the
\* `?` of line 13 returns the error of entry number n + 1
MutDoneBeforeAll(entries, n) == entries
DoneBefore(entries, n) == SubSeq(entries, 1, n)

\* one turn of the while loop that ends in an error: dir.read_dir()? fails
\* (line 12), or entry? fails (line 13) after n entries, and walk_dir
\* returns the error
WalkFails ==
    /\ w_pc = "walk"
    /\ w_dirs # <<>>
    /\ Len(BelowRoot(Last(w_dirs))) <= WalkMaxLen
    /\ LET dir == Last(w_dirs)
       IN  \/ /\ w_err' = dir
              /\ w_order' = <<>>
              /\ w_dirs' = Front(w_dirs)
              /\ w_sent' = w_sent
              /\ w_seen' = w_seen
           \/ \E entries \in SeqsOf(ReadDir(dir)) :
                \E n \in 0..(Len(entries) - 1) :
                    /\ w_err' = entries[n + 1]
                    /\ w_order' = entries
                    /\ w_dirs' = Front(w_dirs) \o Pushed(DoneBefore(entries, n))
                    /\ w_sent' = w_sent \o Sent(DoneBefore(entries, n))
                    /\ w_seen' = Append(w_seen, Real(dir))
    /\ w_pc' = "err"
    /\ UNCHANGED w_tree

WalkNext ==
    \/ (WalkDir /\ UNCHANGED <<covars, prevars, poolvars, prepvars, countvars, globvars>>)
    \/ (WalkReturn /\ UNCHANGED <<covars, prevars, poolvars, prepvars, countvars, globvars>>)

WalkNextErr ==
    \/ (WalkDir /\ UNCHANGED <<covars, prevars, poolvars, prepvars, countvars, globvars>>)
    \/ (WalkReturn /\ UNCHANGED <<covars, prevars, poolvars, prepvars, countvars, globvars>>)
    \/ (WalkFails /\ UNCHANGED <<covars, prevars, poolvars, prepvars, countvars, globvars>>)

\* ---------------------------------------------------------------- SpecPre
\* pre_process.rs pre_process and the use input.rs run_task makes of its
\* result, for one Input, with the 4096 of the code
PreLens == {0, 1, PREFIX - 1, PREFIX, PREFIX + 1, 2 * PREFIX + 1}
PreByte(head, i) ==
    IF i = 1 THEN head
    ELSE IF i % 3 = 0 THEN "a" ELSE IF i % 3 = 1 THEN "1" ELSE " "
PreStream(head, n) == [i \in 1..n |-> PreByte(head, i)]

\* the sizes one read() of a reader with `avail` bytes to give may return
ReadSizes(avail) == {n \in {PREFIX \div 2, avail} : 1 <= n /\ n <= avail}

\* a Config with one file type, whose plugin takes its input as `input`
PreConf(input) ==
    [u |-> [header |-> Header(RegexU, FALSE),
            plugin |-> Unpacker("cat", input, "stdout")]]
\* the path of the Input's file
PrePath == <<-1>>

PreInit ==
    /\ pre_kind \in {"File", "Stdin", "Stdout"}
    /\ pre_orig \in {PreStream(head, n) : head \in {"u", "a"}, n \in PreLens}
    /\ pre_file = IF pre_kind = "File" THEN pre_orig ELSE <<>>
    /\ pre_data = pre_orig
    /\ pre_buf = <<>>
    /\ pre_pp \in {PreProcessorNew(PreConf(input), <<"u">>) : input \in {"file", "stdin"}}
    /\ pre_plugin = NoPlugin
    /\ pre_chain = <<>>
    /\ pre_got = <<>>
    /\ pre_pc = "take"

PreIdle ==
    /\ pre_kind = "File"
    /\ pre_orig = <<>>
    /\ pre_file = <<>>
    /\ pre_data = <<>>
    /\ pre_buf = <<>>
    /\ pre_pp = <<>>
    /\ pre_plugin = NoPlugin
    /\ pre_chain = <<>>
    /\ pre_got = <<>>
    /\ pre_pc = "skipped"

\* pre_process line 60: one read inside (&mut data).take(4096).read_to_end
PreTake ==
    /\ pre_pc = "take"
    /\ Len(pre_buf) < PREFIX
    /\ pre_data # <<>>
    /\ \E n \in ReadSizes(Min(PREFIX - Len(pre_buf), Len(pre_data))) :
          /\ pre_buf' = pre_buf \o Take(pre_data, n)
          /\ pre_data' = Drop(pre_data, n)
    /\ UNCHANGED <<pre_kind, pre_orig, pre_file, pre_pp, pre_plugin, pre_chain,
                   pre_got, pre_pc>>

\* pre_process lines 61-93: read_to_end has returned; the type, the plugin
\* and the chained reader, or None
PreClassify ==
    /\ pre_pc = "take"
    /\ Len(pre_buf) = PREFIX \/ pre_data = <<>>
    /\ LET type == GetFileType(pre_pp, pre_buf)
           file_path == IF pre_kind = "File" THEN PrePath ELSE NoPath
       IN  IF type = None \/ type \notin DOMAIN pre_pp.plugins
           THEN /\ pre_pc' = "skipped"
                /\ UNCHANGED <<pre_plugin, pre_chain>>
           ELSE /\ pre_pc' = "run"
                /\ pre_plugin' = Prep(pre_pp.plugins[type], file_path, 0)
                /\ pre_chain' = Chain(pre_buf, pre_data)
    /\ UNCHANGED <<pre_kind, pre_orig, pre_file, pre_data, pre_buf, pre_pp, pre_got>>

\* run_task lines 111-116: the input path of the plugin is a file that is
\* there already, the file of the Input
PreInputExists ==
    pre_plugin.input_path.kind = "File" /\ pre_plugin.input_path.path = PrePath

\* run_task lines 117 and 128: nothing is copied, the child opens the file
PreInPlace ==
    /\ pre_pc = "run"
    /\ PreInputExists
    /\ pre_got' = pre_file
    /\ pre_pc' = "done"
    /\ UNCHANGED <<pre_kind, pre_orig, pre_file, pre_data, pre_buf, pre_pp, pre_plugin,
                   pre_chain>>

\* run_task line 121 or line 159: one read of ppi.data inside io::copy and
\* the write of what it returned, to the input file or to the child's stdin
PreCopy ==
    /\ pre_pc = "run"
    /\ ~PreInputExists
    /\ pre_chain # <<>>
    /\ \E n \in ReadSizes(Len(pre_chain)) :
          /\ pre_got' = pre_got \o Take(pre_chain, n)
          /\ pre_chain' = Drop(pre_chain, n)
    /\ UNCHANGED <<pre_kind, pre_orig, pre_file, pre_data, pre_buf, pre_pp, pre_plugin,
                   pre_pc>>

\* io::copy has read the end of ppi.data
PreCopied ==
    /\ pre_pc = "run"
    /\ ~PreInputExists
    /\ pre_chain = <<>>
    /\ pre_pc' = "done"
    /\ UNCHANGED <<pre_kind, pre_orig, pre_file, pre_data, pre_buf, pre_pp, pre_plugin,
                   pre_chain, pre_got>>

\* --------------------------------------------------------------- SpecPrep
\* prep_process of plugin.rs on its own: one call, from the Plugin and the
\* optional input file to the PreppedProcess, with the values rand::random
\* returns to gen_path drawn from Rand.  Arguments and paths are sequences
\* of strings: an argument is <<text>>, a path is its components.
MaxArgs == 3
MaxRand == 2
HexWidth == 16

Rand == 0..(MaxRand - 1)
ArgTexts == {"$INPUT", "$OUTPUT", "x$INPUT", "--baz"}
Arg(text) == <<text>>
CurrentDir == <<"cwd">>
InFilePath == <<"infile">>
HexDigits ==
    <<"0", "1", "2", "3", "4", "5", "6", "7", "8", "9", "a", "b", "c", "d", "e", "f">>

\* format!("{:016x}", r) (line 168): `width` lower-case hex digits of r, most
\* significant first, padded with zeros
RECURSIVE Format016x(_, _)
MutFormat016xShort(r, width) == <<HexDigits[((r \div 2) % 16) + 1]>>
Format016x(r, width) ==
    IF width = 0 THEN <<>>
    ELSE Append(Format016x(r \div 16, width - 1), HexDigits[(r % 16) + 1])

\* gen_path (lines 165-171) when rand::random returns r
GenPathRandom(r) == CurrentDir \o Format016x(r, HexWidth)

\* Vec::remove(idx) and Vec::insert(idx, x), indices from 1
RemoveAt(args, idx) == SubSeq(args, 1, idx - 1) \o SubSeq(args, idx + 1, Len(args))
InsertAt(args, idx, x) == SubSeq(args, 1, idx - 1) \o <<x>> \o SubSeq(args, idx, Len(args))

\* the indices replace_arg collects (lines 153-158), in increasing order
RECURSIVE IdxsFrom(_, _, _)
MutIdxsFromFirst(args, var, i) ==
    IF \E k \in i..Len(args) : args[k] = var
    THEN <<CHOOSE k \in i..Len(args) :
                args[k] = var /\ \A j \in i..(k - 1) : args[j] # var>>
    ELSE <<>>
IdxsFrom(args, var, i) ==
    IF i > Len(args) THEN <<>>
    ELSE IF args[i] = var THEN <<i>> \o IdxsFrom(args, var, i + 1)
    ELSE IdxsFrom(args, var, i + 1)

\* the for loop of replace_arg (lines 159-162)
RECURSIVE ReplaceAt(_, _, _)
ReplaceAt(args, idxs, rep) ==
    IF idxs = <<>> THEN args
    ELSE ReplaceAt(InsertAt(RemoveAt(args, Head(idxs)), Head(idxs), rep), Tail(idxs), rep)

\* replace_arg (lines 152-163)
ReplaceArg(args, var, rep) == ReplaceAt(args, IdxsFrom(args, var, 1), rep)

PrepPlugins ==
    [name : {"tail"}, path : {"tail"},
     args : {[i \in DOMAIN a |-> Arg(a[i])] : a \in SeqsUpTo(ArgTexts, MaxArgs)},
     input : {None, "file", "stdin"},
     output : {None, "file", "dir", "stdout"},
     unpacker : {None}]

\* Command::new(&plugin.path) and the clone of the arguments (lines 104-105)
CommandNew(plugin) ==
    [program |-> plugin.path, args |-> plugin.args,
     env |-> [INPUT |-> NoPath, OUTPUT |-> NoPath],
     stdin |-> None, current_dir |-> NoPath,
     temp_input_path |-> NoPath, output_path |-> NoPath]

MutInputTypeOfStdin(plugin) == IF plugin.input = None THEN "stdin" ELSE plugin.input
InputTypeOf(plugin) == IF plugin.input = None THEN "file" ELSE plugin.input
OutputTypeOf(plugin) == IF plugin.output = None THEN "file" ELSE plugin.output

PrepInit ==
    /\ pr_plugin \in PrepPlugins
    /\ pr_infile \in {NoPath, InFilePath}
    /\ pr_draws = <<>>
    /\ pr_paths = <<>>
    /\ pr_proc = CommandNew(pr_plugin)
    /\ pr_pc = "input"

PrepIdle ==
    /\ pr_plugin = None
    /\ pr_infile = NoPath
    /\ pr_draws = <<>>
    /\ pr_paths = <<>>
    /\ pr_proc = None
    /\ pr_pc = "idle"

\* the match on input_type (lines 108-125)
PrepInputStdin ==
    /\ pr_pc = "input"
    /\ InputTypeOf(pr_plugin) = "stdin"
    /\ pr_proc' = [pr_proc EXCEPT !.stdin = "piped"]
    /\ pr_pc' = "output"
    /\ UNCHANGED <<pr_plugin, pr_infile, pr_draws, pr_paths>>

PrepInputFile ==
    /\ pr_pc = "input"
    /\ InputTypeOf(pr_plugin) = "file"
    /\ \E r \in Rand :
        LET fresh == pr_infile = NoPath
            temp_path == IF fresh THEN GenPathRandom(r) ELSE NoPath
            path == IF fresh THEN temp_path ELSE pr_infile
        IN  /\ pr_draws' = IF fresh THEN Append(pr_draws, r) ELSE pr_draws
            /\ pr_paths' = IF fresh THEN Append(pr_paths, temp_path) ELSE pr_paths
            /\ pr_proc' = [pr_proc EXCEPT !.stdin = "null",
                                          !.env.INPUT = path,
                                          !.args = ReplaceArg(@, Arg("$INPUT"), path),
                                          !.temp_input_path = temp_path]
    /\ pr_pc' = "output"
    /\ UNCHANGED <<pr_plugin, pr_infile>>

\* the match on output_type and the export of OUTPUT (lines 126-142)
PrepOutputStdout ==
    /\ pr_pc = "output"
    /\ OutputTypeOf(pr_plugin) = "stdout"
    /\ pr_pc' = "build"
    /\ UNCHANGED <<pr_plugin, pr_infile, pr_draws, pr_paths, pr_proc>>

PrepOutputPath ==
    /\ pr_pc = "output"
    /\ OutputTypeOf(pr_plugin) \in {"file", "dir"}
    /\ \E r \in Rand :
        LET path == GenPathRandom(r)
        IN  /\ pr_draws' = Append(pr_draws, r)
            /\ pr_paths' = Append(pr_paths, path)
            /\ pr_proc' = [pr_proc EXCEPT
                    !.current_dir = IF OutputTypeOf(pr_plugin) = "dir" THEN path ELSE @,
                    !.output_path = path,
                    !.env.OUTPUT = path,
                    !.args = ReplaceArg(@, Arg("$OUTPUT"), path)]
    /\ pr_pc' = "build"
    /\ UNCHANGED <<pr_plugin, pr_infile>>

\* the PreppedProcess returned (lines 143-149)
PrepReturn ==
    /\ pr_pc = "build"
    /\ pr_pc' = "done"
    /\ UNCHANGED <<pr_plugin, pr_infile, pr_draws, pr_paths, pr_proc>>

\* -------------------------------------------------------------- SpecCount
\* main.rs, the earlier entry point: run() takes the entries one by one
\* on the main thread and calls run_process for each; the jobs of the
\* thread pool tp wait for the children.  ProcessCount is the count of
\* the children under a Mutex.
\* the entries run() has to go through
CntEntries == 3
\* ProcessCount::new(max) and ThreadPool::new(n), as test_run_process has them
CntMax == 1
CntThreads == 3
CntOutputTypes == {"stdout", "file"}
CntJob(role, e) == [role |-> role, entry |-> e]

\* spawn_output_handlers (lines 318-358): the jobs sent to tp for the
\* child of the entry e, in the order of the calls
CntHandlers(type, e) ==
    IF type = "stdout" THEN <<CntJob("stderr", e), CntJob("handler", e)>>
    ELSE <<CntJob("stderr", e), CntJob("stdout", e), CntJob("handler", e)>>

\* ProcessCount::wait (lines 147-151): wait_while(|c| *c > count) lets the
\* caller go on when this holds
WaitOver(c, count) == ~(c > count)

CountInit ==
    /\ cnt_count = 0
    /\ cnt_pc = "incr"
    /\ cnt_entry = 1
    /\ cnt_child = [e \in 1..CntEntries |-> "none"]
    /\ cnt_queue = <<>>
    /\ cnt_active = {}

CountIdle ==
    /\ cnt_count = 0
    /\ cnt_pc = "idle"
    /\ cnt_entry = 0
    /\ cnt_child = <<>>
    /\ cnt_queue = <<>>
    /\ cnt_active = {}

\* run_process lines 303 and 308, pc.incr() (lines 153-156): wait for the
\* count, then one more, under the one lock
CntIncr ==
    /\ cnt_pc = "incr"
    /\ WaitOver(cnt_count, CntMax)
    /\ cnt_count' = cnt_count + 1
    /\ cnt_pc' = "spawn"
    /\ UNCHANGED <<cnt_entry, cnt_child, cnt_queue, cnt_active>>

\* run_process lines 304-305 and 309-311: the child is spawned and its
\* handlers go to the thread pool; run() goes on to the next entry, or to
\* tp.join() (line 107) after the last
CntSpawn ==
    /\ cnt_pc = "spawn"
    /\ \E type \in CntOutputTypes :
          cnt_queue' = cnt_queue \o CntHandlers(type, cnt_entry)
    /\ cnt_child' = [cnt_child EXCEPT ![cnt_entry] = "running"]
    /\ IF cnt_entry < CntEntries
       THEN cnt_pc' = "incr" /\ cnt_entry' = cnt_entry + 1
       ELSE cnt_pc' = "join" /\ cnt_entry' = cnt_entry
    /\ UNCHANGED <<cnt_count, cnt_active>>

\* proc.command.spawn()? fails: the error leaves run_process and, by the ?
\* of line 100, run()
CntSpawnFails ==
    /\ cnt_pc = "spawn"
    /\ cnt_pc' = "err"
    /\ UNCHANGED <<cnt_count, cnt_entry, cnt_child, cnt_queue, cnt_active>>

\* a thread of tp takes the next job (spawn, lines 390-402: tp.execute)
CntStart ==
    /\ cnt_queue # <<>>
    /\ Cardinality(cnt_active) < CntThreads
    /\ cnt_active' = cnt_active \cup {Head(cnt_queue)}
    /\ cnt_queue' = Tail(cnt_queue)
    /\ UNCHANGED <<cnt_count, cnt_pc, cnt_entry, cnt_child>>

\* spawn_logger (lines 369-388): the job reads the child's stderr or
\* stdout to its end, which comes when the child has exited
CntLogger(j) ==
    /\ j \in cnt_active
    /\ j.role \in {"stderr", "stdout"}
    /\ cnt_child[j.entry] # "running"
    /\ cnt_active' = cnt_active \ {j}
    /\ UNCHANGED <<cnt_count, cnt_pc, cnt_entry, cnt_child, cnt_queue>>

\* wait_and_cleanup (lines 360-367) in the job of lines 331, 341 or 353:
\* child.wait() and then pc.decr() (lines 158-162)
CntWaitAndCleanup(j) ==
    /\ j \in cnt_active
    /\ j.role = "handler"
    /\ cnt_child[j.entry] = "exited"
    /\ cnt_child' = [cnt_child EXCEPT ![j.entry] = "waited"]
    /\ cnt_count' = cnt_count - 1
    /\ cnt_active' = cnt_active \ {j}
    /\ UNCHANGED <<cnt_pc, cnt_entry, cnt_queue>>

\* a child exits
CntChildExit(e) ==
    /\ e \in DOMAIN cnt_child
    /\ cnt_child[e] = "running"
    /\ cnt_child' = [cnt_child EXCEPT ![e] = "exited"]
    /\ UNCHANGED <<cnt_count, cnt_pc, cnt_entry, cnt_queue, cnt_active>>

\* tp.join() (line 107) returns when no job is queued or running
CntJoin ==
    /\ cnt_pc = "join"
    /\ cnt_queue = <<>>
    /\ cnt_active = {}
    /\ cnt_pc' = "done"
    /\ UNCHANGED <<cnt_count, cnt_entry, cnt_child, cnt_queue, cnt_active>>

CntJobs == {CntJob(role, e) : role \in {"stderr", "stdout", "handler"}, e \in 1..CntEntries}

CountNext ==
    \/ (CntIncr /\ UNCHANGED <<covars, prevars, poolvars, walkvars, prepvars, globvars>>)
    \/ (CntSpawn /\ UNCHANGED <<covars, prevars, poolvars, walkvars, prepvars, globvars>>)
    \/ (CntSpawnFails /\ UNCHANGED <<covars, prevars, poolvars, walkvars, prepvars, globvars>>)
    \/ (CntStart /\ UNCHANGED <<covars, prevars, poolvars, walkvars, prepvars, globvars>>)
    \/ \E j \in CntJobs : CntLogger(j) /\ UNCHANGED <<covars, prevars, poolvars, walkvars, prepvars, globvars>>
    \/ \E j \in CntJobs : CntWaitAndCleanup(j) /\ UNCHANGED <<covars, prevars, poolvars, walkvars, prepvars, globvars>>
    \/ \E e \in 1..CntEntries : CntChildExit(e) /\ UNCHANGED <<covars, prevars, poolvars, walkvars, prepvars, globvars>>
    \/ (CntJoin /\ UNCHANGED <<covars, prevars, poolvars, walkvars, prepvars, globvars>>)

\* --------------------------------------------------------------- SpecGlob
\* process.rs, the implementation on two thread pools: the caller runs
\* run_process for one input on its own thread, as test_run_process does,
\* and calls Global::join().  A job of a ThreadPool is queued by execute,
\* active once a thread of the pool has taken it, and gone when it has
\* returned.
\* Global::new(.., primary_size, secondary_size)
PrimarySize == 2
SecondarySize == 2
\* the files an unpacker leaves in its output directory
GFiles == 2
GPools == {"primary", "secondary"}
GSize(pool) == IF pool = "primary" THEN PrimarySize ELSE SecondarySize
\* the plugin of the caller's input: a processor that writes to its stdout
\* or to a file, or an unpacker that writes to a directory
GKinds == {"stdout", "file", "unpack"}
GJob(kind, task, pc) == [kind |-> kind, task |-> task, pc |-> pc]
GChild(kind) == [kind |-> kind, exited |-> FALSE]

\* run_process lines 175-190: the child of the task is spawned, its stderr
\* goes to a job of the secondary pool, and so does its stdout when the
\* plugin writes its output there.  The queue of the secondary pool after:
GHandlers(queue, kind, task) ==
    IF kind = "stdout"
    THEN queue \o <<GJob("handle_stderr", task, "run"), GJob("handle_stdout", task, "run")>>
    ELSE Append(queue, GJob("handle_stderr", task, "run"))

\* Global::join line 49-53: the four counts are read one after the other
GCount(pc) ==
    IF pc = "primary_active" THEN Cardinality(g_active["primary"])
    ELSE IF pc = "secondary_active" THEN Cardinality(g_active["secondary"])
    ELSE IF pc = "primary_queued" THEN Len(g_queue["primary"])
    ELSE Len(g_queue["secondary"])
GAfter(pc) ==
    IF pc = "primary_active" THEN "secondary_active"
    ELSE IF pc = "secondary_active" THEN "primary_queued"
    ELSE "secondary_queued"

GlobInit ==
    /\ g_pc = "run"
    /\ g_kind \in GKinds
    /\ g_sum = 0
    /\ g_child = <<>>
    /\ g_queue = [p \in GPools |-> <<>>]
    /\ g_active = [p \in GPools |-> {}]
    /\ g_sink = {}

GlobIdle ==
    /\ g_pc = "idle"
    /\ g_kind = "stdout"
    /\ g_sum = 0
    /\ g_child = <<>>
    /\ g_queue = <<>>
    /\ g_active = <<>>
    /\ g_sink = {}

\* run_process lines 175-190 on the caller's thread, for the task 0
GRunProcess ==
    /\ g_pc = "run"
    /\ g_child' = (0 :> GChild(g_kind)) @@ g_child
    /\ g_queue' = [g_queue EXCEPT !["secondary"] = GHandlers(@, g_kind, 0)]
    /\ g_pc' = "wait"
    /\ UNCHANGED <<g_kind, g_sum, g_active, g_sink>>

\* run_process lines 195-201 on the caller's thread: child.wait(), and the
\* output file or directory goes to a job of the secondary pool
GWait ==
    /\ g_pc = "wait"
    /\ g_child[0].exited
    /\ g_queue' = IF g_kind = "stdout" THEN g_queue
                  ELSE [g_queue EXCEPT !["secondary"] =
                            Append(@, GJob("handle_output_files", 0, "run"))]
    /\ g_pc' = "primary_active"
    /\ UNCHANGED <<g_kind, g_sum, g_child, g_active, g_sink>>

\* a child exits
GChildExit(c) ==
    /\ c \in DOMAIN g_child
    /\ ~g_child[c].exited
    /\ g_child' = [g_child EXCEPT ![c].exited = TRUE]
    /\ UNCHANGED <<g_pc, g_kind, g_sum, g_queue, g_active, g_sink>>

\* a thread of the pool takes the next job (spawn, lines 62-71: tp.execute)
GStart(pool) ==
    /\ g_queue[pool] # <<>>
    /\ Cardinality(g_active[pool]) < GSize(pool)
    /\ g_active' = [g_active EXCEPT ![pool] = @ \cup {Head(g_queue[pool])}]
    /\ g_queue' = [g_queue EXCEPT ![pool] = Tail(@)]
    /\ UNCHANGED <<g_pc, g_kind, g_sum, g_child, g_sink>>

\* handle_stderr (lines 255-263): the job reads the child's stderr to its
\* end, which comes when the child has exited
GHandleStderr(j) ==
    /\ j \in g_active["secondary"]
    /\ j.kind = "handle_stderr"
    /\ g_child[j.task].exited
    /\ g_active' = [g_active EXCEPT !["secondary"] = @ \ {j}]
    /\ UNCHANGED <<g_pc, g_kind, g_sum, g_child, g_queue, g_sink>>

\* handle_stdout (lines 204-219) of a plugin that is no unpacker:
\* copy_output of the child's stdout, to its end, to the sink
GHandleStdout(j) ==
    /\ j \in g_active["secondary"]
    /\ j.kind = "handle_stdout"
    /\ g_child[j.task].exited
    /\ g_sink' = g_sink \cup {j.task}
    /\ g_active' = [g_active EXCEPT !["secondary"] = @ \ {j}]
    /\ UNCHANGED <<g_pc, g_kind, g_sum, g_child, g_queue>>

\* handle_output_files (lines 221-253): the output file goes to the sink
\* (lines 227-231), or process_dir (lines 96-112) sends a process_file job
\* to the primary pool for every file of the unpacker's directory
GHandleOutputFiles(j) ==
    /\ j \in g_active["secondary"]
    /\ j.kind = "handle_output_files"
    /\ IF g_child[j.task].kind = "file"
       THEN /\ g_sink' = g_sink \cup {j.task}
            /\ g_queue' = g_queue
       ELSE /\ g_sink' = g_sink
            /\ g_queue' = [g_queue EXCEPT !["primary"] =
                              @ \o [i \in 1..GFiles |-> GJob("process_file", i, "run")]]
    /\ g_active' = [g_active EXCEPT !["secondary"] = @ \ {j}]
    /\ UNCHANGED <<g_pc, g_kind, g_sum, g_child>>

\* process_file (lines 114-131) in a job of the primary pool, up to the
\* wait() of run_process (lines 175-194): the file is of the processor's
\* type, its child is spawned and the handlers go to the secondary pool
GProcessFile(j) ==
    /\ j \in g_active["primary"]
    /\ j.pc = "run"
    /\ g_child' = (j.task :> GChild("stdout")) @@ g_child
    /\ g_queue' = [g_queue EXCEPT !["secondary"] = GHandlers(@, "stdout", j.task)]
    /\ g_active' = [g_active EXCEPT !["primary"] = (@ \ {j}) \cup {[j EXCEPT !.pc = "wait"]}]
    /\ UNCHANGED <<g_pc, g_kind, g_sum, g_sink>>

\* run_process lines 195-201 in the job: child.wait(), and the job returns
GProcessFileWait(j) ==
    /\ j \in g_active["primary"]
    /\ j.pc = "wait"
    /\ g_child[j.task].exited
    /\ g_active' = [g_active EXCEPT !["primary"] = @ \ {j}]
    /\ UNCHANGED <<g_pc, g_kind, g_sum, g_child, g_queue, g_sink>>

\* Global::join lines 49-53: one more of the four counts is read and
\* added, and after the last the sum is compared with 0
GJoinCount ==
    /\ g_pc \in {"primary_active", "secondary_active", "primary_queued", "secondary_queued"}
    /\ LET sum == g_sum + GCount(g_pc)
       IN  IF g_pc # "secondary_queued"
           THEN g_sum' = sum /\ g_pc' = GAfter(g_pc)
           ELSE g_sum' = 0 /\ g_pc' = IF sum > 0 THEN "join_primary" ELSE "returned"
    /\ UNCHANGED <<g_kind, g_child, g_queue, g_active, g_sink>>

\* Global::join lines 55-56: ThreadPool::join returns when the pool has no
\* job queued or active
GJoinPool ==
    /\ g_pc \in {"join_primary", "join_secondary"}
    /\ LET pool == IF g_pc = "join_primary" THEN "primary" ELSE "secondary"
       IN  g_queue[pool] = <<>> /\ g_active[pool] = {}
    /\ g_pc' = IF g_pc = "join_primary" THEN "join_secondary" ELSE "primary_active"
    /\ UNCHANGED <<g_kind, g_sum, g_child, g_queue, g_active, g_sink>>

GJobs ==
    {GJob(k, t, pc) : k \in {"handle_stderr", "handle_stdout", "handle_output_files",
                             "process_file"},
                      t \in 0..GFiles, pc \in {"run", "wait"}}

GlobNext ==
    \/ (GRunProcess /\ UNCHANGED <<covars, prevars, poolvars, walkvars, prepvars, countvars>>)
    \/ (GWait /\ UNCHANGED <<covars, prevars, poolvars, walkvars, prepvars, countvars>>)
    \/ \E c \in 0..GFiles : GChildExit(c) /\ UNCHANGED <<covars, prevars, poolvars, walkvars, prepvars, countvars>>
    \/ \E pool \in GPools : GStart(pool) /\ UNCHANGED <<covars, prevars, poolvars, walkvars, prepvars, countvars>>
    \/ \E j \in GJobs : GHandleStderr(j) /\ UNCHANGED <<covars, prevars, poolvars, walkvars, prepvars, countvars>>
    \/ \E j \in GJobs : GHandleStdout(j) /\ UNCHANGED <<covars, prevars, poolvars, walkvars, prepvars, countvars>>
    \/ \E j \in GJobs : GHandleOutputFiles(j) /\ UNCHANGED <<covars, prevars, poolvars, walkvars, prepvars, countvars>>
    \/ \E j \in GJobs : GProcessFile(j) /\ UNCHANGED <<covars, prevars, poolvars, walkvars, prepvars, countvars>>
    \/ \E j \in GJobs : GProcessFileWait(j) /\ UNCHANGED <<covars, prevars, poolvars, walkvars, prepvars, countvars>>
    \/ (GJoinCount /\ UNCHANGED <<covars, prevars, poolvars, walkvars, prepvars, countvars>>)
    \/ (GJoinPool /\ UNCHANGED <<covars, prevars, poolvars, walkvars, prepvars, countvars>>)

PrepNext ==
    \/ (PrepInputStdin /\ UNCHANGED <<covars, prevars, poolvars, walkvars, countvars, globvars>>)
    \/ (PrepInputFile /\ UNCHANGED <<covars, prevars, poolvars, walkvars, countvars, globvars>>)
    \/ (PrepOutputStdout /\ UNCHANGED <<covars, prevars, poolvars, walkvars, countvars, globvars>>)
    \/ (PrepOutputPath /\ UNCHANGED <<covars, prevars, poolvars, walkvars, countvars, globvars>>)
    \/ (PrepReturn /\ UNCHANGED <<covars, prevars, poolvars, walkvars, countvars, globvars>>)

PreNext ==
    \/ (PreTake /\ UNCHANGED <<covars, poolvars, walkvars, prepvars, countvars, globvars>>)
    \/ (PreClassify /\ UNCHANGED <<covars, poolvars, walkvars, prepvars, countvars, globvars>>)
    \/ (PreInPlace /\ UNCHANGED <<covars, poolvars, walkvars, prepvars, countvars, globvars>>)
    \/ (PreCopy /\ UNCHANGED <<covars, poolvars, walkvars, prepvars, countvars, globvars>>)
    \/ (PreCopied /\ UNCHANGED <<covars, poolvars, walkvars, prepvars, countvars, globvars>>)

InitPre ==
    PreInit /\ CoIdle /\ PoolIdle /\ WalkIdle /\ PrepIdle /\ CountIdle /\ GlobIdle
SpecPre == InitPre /\ [][PreNext]_vars

InitPrep ==
    PrepInit /\ CoIdle /\ PreIdle /\ PoolIdle /\ WalkIdle /\ CountIdle /\ GlobIdle
SpecPrep == InitPrep /\ [][PrepNext]_vars

\* ------------------------------------------------------------------- Spec
Init ==
    PoolNew(Configs, SeedContents, NumIn, NumOut) /\ CoIdle /\ PreIdle /\ WalkIdle /\ PrepIdle /\ CountIdle /\ GlobIdle

Threads == 1..AdHoc(MaxId)
OutThreads == 1..OutMax
Children == 0..MaxId

Next ==
    \/ (Seed /\ UNCHANGED <<covars, prevars, walkvars, prepvars, countvars, globvars>>)
    \/ (JoinCall /\ UNCHANGED <<covars, prevars, walkvars, prepvars, countvars, globvars>>)
    \/ (JoinWhileInput /\ UNCHANGED <<covars, prevars, walkvars, prepvars, countvars, globvars>>)
    \/ (JoinWhileOutput /\ UNCHANGED <<covars, prevars, walkvars, prepvars, countvars, globvars>>)
    \/ (JoinWhileActivity /\ UNCHANGED <<covars, prevars, walkvars, prepvars, countvars, globvars>>)
    \/ (JoinRecv /\ UNCHANGED <<covars, prevars, walkvars, prepvars, countvars, globvars>>)
    \/ \E t \in Threads : InputRecv(t) /\ UNCHANGED <<covars, prevars, walkvars, prepvars, countvars, globvars>>
    \/ \E t \in Threads : InputBusy(t) /\ UNCHANGED <<covars, prevars, walkvars, prepvars, countvars, globvars>>
    \/ \E t \in Threads : InputIdle(t) /\ UNCHANGED <<covars, prevars, walkvars, prepvars, countvars, globvars>>
    \/ \E t \in Threads : ReadPipe(t) /\ UNCHANGED <<covars, prevars, walkvars, prepvars, countvars, globvars>>
    \/ \E t \in Threads : PreProcess(t) /\ UNCHANGED <<covars, prevars, walkvars, prepvars, countvars, globvars>>
    \/ \E t \in Threads : Spawn(t) /\ UNCHANGED <<covars, prevars, walkvars, prepvars, countvars, globvars>>
    \/ \E t \in Threads : Route(t) /\ UNCHANGED <<covars, prevars, walkvars, prepvars, countvars, globvars>>
    \/ \E t \in Threads : Feed(t) /\ UNCHANGED <<covars, prevars, walkvars, prepvars, countvars, globvars>>
    \/ \E t \in Threads : Wait(t) /\ UNCHANGED <<covars, prevars, walkvars, prepvars, countvars, globvars>>
    \/ \E c \in Children : ChildWrite(c) /\ UNCHANGED <<covars, prevars, walkvars, prepvars, countvars, globvars>>
    \/ \E c \in Children : ChildExit(c) /\ UNCHANGED <<covars, prevars, walkvars, prepvars, countvars, globvars>>
    \/ \E o \in OutThreads : OutputRecv(o) /\ UNCHANGED <<covars, prevars, walkvars, prepvars, countvars, globvars>>
    \/ \E o \in OutThreads : OutputBusy(o) /\ UNCHANGED <<covars, prevars, walkvars, prepvars, countvars, globvars>>
    \/ \E o \in OutThreads : OutputIdle(o) /\ UNCHANGED <<covars, prevars, walkvars, prepvars, countvars, globvars>>
    \/ \E o \in OutThreads : OpenFile(o) /\ UNCHANGED <<covars, prevars, walkvars, prepvars, countvars, globvars>>
    \/ \E o \in OutThreads : CopyOutput(o) /\ UNCHANGED <<covars, prevars, walkvars, prepvars, countvars, globvars>>
    \/ \E o \in OutThreads : LogOutput(o) /\ UNCHANGED <<covars, prevars, walkvars, prepvars, countvars, globvars>>

Spec == Init /\ [][Next]_vars

\* the pool with one output worker more, on one configuration
InitTwo ==
    PoolNew({ConfigTwo, ConfigTwoOut}, {ContentU}, NumIn, OutMax) /\ CoIdle /\ PreIdle /\ WalkIdle /\ PrepIdle /\ CountIdle /\ GlobIdle
SpecTwo == InitTwo /\ [][Next]_vars

\* -------------------------------------------------------------- SpecSized
\* the pool in its usual size, two output workers to an input worker, with
\* a producer that has two inputs to send and has not called join() yet.
\* The plugins of the configuration write to their stdout, so that no
\* Output is a file.
SizedSeeds == 2
InitSized ==
    PoolNew({ConfigTwoOut}, {ContentU, ContentD}, NumIn, 2 * NumIn) /\ CoIdle /\ PreIdle /\ WalkIdle /\ PrepIdle /\ CountIdle /\ GlobIdle

NextSized ==
    \/ (SeedUpTo(SizedSeeds) /\ UNCHANGED <<covars, prevars, walkvars, prepvars, countvars, globvars>>)
    \/ \E t \in Threads : InputRecv(t) /\ UNCHANGED <<covars, prevars, walkvars, prepvars, countvars, globvars>>
    \/ \E t \in Threads : InputBusy(t) /\ UNCHANGED <<covars, prevars, walkvars, prepvars, countvars, globvars>>
    \/ \E t \in Threads : InputIdle(t) /\ UNCHANGED <<covars, prevars, walkvars, prepvars, countvars, globvars>>
    \/ \E t \in Threads : ReadPipe(t) /\ UNCHANGED <<covars, prevars, walkvars, prepvars, countvars, globvars>>
    \/ \E t \in Threads : PreProcess(t) /\ UNCHANGED <<covars, prevars, walkvars, prepvars, countvars, globvars>>
    \/ \E t \in Threads : Spawn(t) /\ UNCHANGED <<covars, prevars, walkvars, prepvars, countvars, globvars>>
    \/ \E t \in Threads : Route(t) /\ UNCHANGED <<covars, prevars, walkvars, prepvars, countvars, globvars>>
    \/ \E t \in Threads : Feed(t) /\ UNCHANGED <<covars, prevars, walkvars, prepvars, countvars, globvars>>
    \/ \E t \in Threads : Wait(t) /\ UNCHANGED <<covars, prevars, walkvars, prepvars, countvars, globvars>>
    \/ \E c \in Children : ChildWrite(c) /\ UNCHANGED <<covars, prevars, walkvars, prepvars, countvars, globvars>>
    \/ \E c \in Children : ChildExit(c) /\ UNCHANGED <<covars, prevars, walkvars, prepvars, countvars, globvars>>
    \/ \E o \in OutThreads : OutputRecv(o) /\ UNCHANGED <<covars, prevars, walkvars, prepvars, countvars, globvars>>
    \/ \E o \in OutThreads : OutputBusy(o) /\ UNCHANGED <<covars, prevars, walkvars, prepvars, countvars, globvars>>
    \/ \E o \in OutThreads : OutputIdle(o) /\ UNCHANGED <<covars, prevars, walkvars, prepvars, countvars, globvars>>
    \/ \E o \in OutThreads : CopyOutput(o) /\ UNCHANGED <<covars, prevars, walkvars, prepvars, countvars, globvars>>
    \/ \E o \in OutThreads : LogOutput(o) /\ UNCHANGED <<covars, prevars, walkvars, prepvars, countvars, globvars>>

SpecSized == InitSized /\ [][NextSized]_vars

\* ---------------------------------------------------------------- SpecErr
\* the pool with children that fail and writes to a child's stdin that fail
ConfigsErr ==
    {Conf(Unpacker("tail", "stdin", "stdout"), HexD, Processor("stdin", "stdout")),
     Conf(Unpacker("tail", "file", "file"), TextD, Processor("file", "file"))}
InitErr ==
    PoolNew(ConfigsErr, {ContentU, ContentD}, NumIn, NumOut) /\ CoIdle /\ PreIdle /\ WalkIdle /\ PrepIdle /\ CountIdle /\ GlobIdle

NextErr ==
    \/ (Seed /\ UNCHANGED <<covars, prevars, walkvars, prepvars, countvars, globvars>>)
    \/ (JoinCall /\ UNCHANGED <<covars, prevars, walkvars, prepvars, countvars, globvars>>)
    \/ (JoinWhileInput /\ UNCHANGED <<covars, prevars, walkvars, prepvars, countvars, globvars>>)
    \/ (JoinWhileOutput /\ UNCHANGED <<covars, prevars, walkvars, prepvars, countvars, globvars>>)
    \/ (JoinWhileActivity /\ UNCHANGED <<covars, prevars, walkvars, prepvars, countvars, globvars>>)
    \/ (JoinRecv /\ UNCHANGED <<covars, prevars, walkvars, prepvars, countvars, globvars>>)
    \/ \E t \in Threads : InputRecv(t) /\ UNCHANGED <<covars, prevars, walkvars, prepvars, countvars, globvars>>
    \/ \E t \in Threads : InputBusy(t) /\ UNCHANGED <<covars, prevars, walkvars, prepvars, countvars, globvars>>
    \/ \E t \in Threads : InputIdle(t) /\ UNCHANGED <<covars, prevars, walkvars, prepvars, countvars, globvars>>
    \/ \E t \in Threads : ReadPipe(t) /\ UNCHANGED <<covars, prevars, walkvars, prepvars, countvars, globvars>>
    \/ \E t \in Threads : PreProcess(t) /\ UNCHANGED <<covars, prevars, walkvars, prepvars, countvars, globvars>>
    \/ \E t \in Threads : Spawn(t) /\ UNCHANGED <<covars, prevars, walkvars, prepvars, countvars, globvars>>
    \/ \E t \in Threads : Route(t) /\ UNCHANGED <<covars, prevars, walkvars, prepvars, countvars, globvars>>
    \/ \E t \in Threads : Feed(t) /\ UNCHANGED <<covars, prevars, walkvars, prepvars, countvars, globvars>>
    \/ \E t \in Threads : FeedFails(t) /\ UNCHANGED <<covars, prevars, walkvars, prepvars, countvars, globvars>>
    \/ \E t \in Threads : SpawnFails(t) /\ UNCHANGED <<covars, prevars, walkvars, prepvars, countvars, globvars>>
    \/ \E t \in Threads : Wait(t) /\ UNCHANGED <<covars, prevars, walkvars, prepvars, countvars, globvars>>
    \/ \E c \in Children : ChildWrite(c) /\ UNCHANGED <<covars, prevars, walkvars, prepvars, countvars, globvars>>
    \/ \E c \in Children : ChildExit(c) /\ UNCHANGED <<covars, prevars, walkvars, prepvars, countvars, globvars>>
    \/ \E c \in Children : ChildFail(c) /\ UNCHANGED <<covars, prevars, walkvars, prepvars, countvars, globvars>>
    \/ \E o \in OutThreads : OutputRecv(o) /\ UNCHANGED <<covars, prevars, walkvars, prepvars, countvars, globvars>>
    \/ \E o \in OutThreads : OutputBusy(o) /\ UNCHANGED <<covars, prevars, walkvars, prepvars, countvars, globvars>>
    \/ \E o \in OutThreads : OutputIdle(o) /\ UNCHANGED <<covars, prevars, walkvars, prepvars, countvars, globvars>>
    \/ \E o \in OutThreads : OpenFile(o) /\ UNCHANGED <<covars, prevars, walkvars, prepvars, countvars, globvars>>
    \/ \E o \in OutThreads : CopyOutput(o) /\ UNCHANGED <<covars, prevars, walkvars, prepvars, countvars, globvars>>
    \/ \E o \in OutThreads : LogOutput(o) /\ UNCHANGED <<covars, prevars, walkvars, prepvars, countvars, globvars>>

SpecErr == InitErr /\ [][NextErr]_vars

\* --------------------------------------------------------------- SpecWalk
InitWalk ==
    WalkInit /\ CoIdle /\ PreIdle /\ PoolIdle /\ PrepIdle /\ CountIdle /\ GlobIdle
SpecWalk == InitWalk /\ [][WalkNext]_vars
SpecWalkErr == InitWalk /\ [][WalkNextErr]_vars

\* -------------------------------------------------- SpecCount, SpecGlob
InitCount ==
    CountInit /\ GlobIdle /\ CoIdle /\ PreIdle /\ PoolIdle /\ WalkIdle /\ PrepIdle
SpecCount == InitCount /\ [][CountNext]_vars
InitGlob ==
    GlobInit /\ CountIdle /\ CoIdle /\ PreIdle /\ PoolIdle /\ WalkIdle /\ PrepIdle
SpecGlob == InitGlob /\ [][GlobNext]_vars

\* ---------------------------------------------------------------- SpecOut
CoNext == CopyOutputLine /\ UNCHANGED <<prevars, poolvars, walkvars, prepvars, countvars, globvars>>
InitOut ==
    CoInit /\ PreIdle /\ PoolIdle /\ WalkIdle /\ PrepIdle /\ CountIdle /\ GlobIdle
SpecOut == InitOut /\ [][CoNext]_vars

\* ================================================================ properties
\* nothing is queued and no thread holds an Input or an Output: the pool
\* workers are at their recv() and there is no ad-hoc thread
Quiescent ==
    /\ input_queue = <<>>
    /\ output_queue = <<>>
    /\ \A t \in DOMAIN ih : ~IsAdHoc(t) /\ ih[t].pc = "recv"
    /\ \A o \in DOMAIN oh : oh[o].pc = "recv"

\* C1: at the moment Pool::join returns, the input queue and the output
\* queue are empty, no pool worker holds a message it has received and no
\* ad-hoc thread is left: nothing is being handled or can still be enqueued.
C1_JoinDrains == [][join_pc # "done" /\ join_pc' = "done" => Quiescent']_vars

\* C2: with tail for an unpacker (every Input is shorter than the one it
\* was unpacked from, so the Inputs are finitely many), one input worker
\* and one output worker, a join() that was called and has not returned is
\* never stuck for good: some thread or subprocess can take a step.
C2_JoinReturns ==
    (config.u.plugin.path = "tail" /\ join_pc \notin {"seed", "done", "panic"})
        => ENABLED Next

\* C3: no two Inputs made by the factory carry the same TaskId, whichever
\* threads made them and however their calls of new_input interleave.
C3_TaskIdUnique ==
    \A i, j \in DOMAIN created : i # j => created[i].task_id # created[j].task_id
\* one thread has made two Inputs, and another thread one more
C3_Witness ==
    \E i, j, k \in DOMAIN created :
        /\ i # j
        /\ created[i].task_id[1] = created[j].task_id[1]
        /\ created[k].task_id[1] # created[i].task_id[1]

\* C4: with two output workers writing to the one sink, the sink is at all
\* times a sequence of whole records, each a JSON object followed by its
\* newline, and no worker is ever between two write_all calls of a record.
C4_WholeRecords ==
    /\ Len(exit) % 2 = 0
    /\ \A i \in DOMAIN exit : exit[i].b = (IF i % 2 = 1 THEN "object" ELSE "newline")
    /\ \A o \in DOMAIN oh : oh[o].calls = <<>>
\* both output workers are inside copy_output and records have been written
C4_Witness ==
    /\ Len(exit) >= 4
    /\ \E o1, o2 \in DOMAIN oh :
          o1 # o2 /\ oh[o1].pc = "copy" /\ oh[o2].pc = "copy"

\* C5: whenever the sink grows, it grows by one line: a JSON object with
\* exactly the keys plugin, path, type and data, whose plugin, path and type
\* are those of an Output of kind File or Stdout that an output worker is
\* handling, and a newline; so an Output of kind LogStdout or LogStderr
\* never adds to the sink.
C5_RecordSchema ==
    [][exit' # exit =>
         \E o \in DOMAIN oh :
            /\ oh[o].output.data.kind \in {"File", "Stdout"}
            /\ Len(exit') = Len(exit) + 2
            /\ SubSeq(exit', 1, Len(exit)) = exit
            /\ exit'[Len(exit) + 2] = NewlineByte
            /\ LET object == exit'[Len(exit) + 1]
               IN  /\ object.b = "object"
                   /\ DOMAIN object.v = {"plugin", "path", "type", "data"}
                   /\ object.v["plugin"] = oh[o].output.plugin_name
                   /\ object.v["path"] = oh[o].output.item_path
                   /\ object.v["type"] = oh[o].output.item_type]_vars
\* records are in the sink, and the stdout of a plugin whose output is a
\* file has been read to its end as a LogStdout
C5_Witness ==
    /\ Len(exit) >= 4
    /\ \E c \in DOMAIN child :
          /\ child[c].plugin.output_path.kind = "File"
          /\ ~child[c].plugin.unpacker
          /\ child[c].exited /\ child[c].out = <<>> /\ child[c].pipe = <<>>

\* the line less its trailing carriage returns and line feeds
RECURSIVE StripCRLF(_)
StripCRLF(s) ==
    IF s = <<>> THEN s
    ELSE IF Last(s) \in {"\r", "\n"} THEN StripCRLF(Front(s))
    ELSE s

\* C6: a line read adds exactly one record, and its data field is the JSON
\* value of the line (less its line ending) when that is valid JSON, and
\* otherwise the line (less its line ending) as a string.
C6_Payload ==
    co_line # <<>> =>
        /\ Len(co_exit) = 2 * co_calls
        /\ co_exit[Len(co_exit) - 1].v["data"] =
               (IF JsonValid(StripCRLF(co_line)) THEN JsonParse(StripCRLF(co_line))
                ELSE ValueString(StripCRLF(co_line)))

\* C7: the bytes the subprocess has got for its input, in its input file or
\* on its stdin, are the bytes of the Input as it arrived, for an Input
\* shorter than 4096 bytes, of 4096 bytes and longer.
C7_NothingConsumed == pre_pc = "done" => pre_got = pre_orig
\* a stream longer than 4096 bytes has been copied to the input file
C7_Witness ==
    /\ pre_pc = "done"
    /\ pre_kind = "Stdout"
    /\ pre_plugin.input_path.kind = "File"
    /\ Len(pre_orig) > PREFIX
    /\ Len(pre_buf) = PREFIX

\* the records in the sink, as a bag
RECURSIVE BagOfRecords(_)
BagOfRecords(bytes) ==
    IF bytes = <<>> THEN EmptyBag
    ELSE IF Head(bytes).b = "object"
         THEN SetToBag({Head(bytes).v}) (+) BagOfRecords(Tail(bytes))
    ELSE BagOfRecords(Tail(bytes))
\* the lines a plugin leaves for the sink when it is given `content`
RecordLines(plugin, content) ==
    IF plugin.output = "dir"
    THEN LinesOf(Exec(plugin.path, content)) \o LinesOf(OtherFile)
    ELSE LinesOf(Exec(plugin.path, content))
\* the records of the item `content` at item_path dispatched to the plugin
\* of the type d
DirectRecords(content, item_path) ==
    LET plugin == config.d.plugin
        lines == RecordLines(plugin, content)
    IN  BagOfRecords(Flatten([i \in 1..Len(lines) |->
                                OutBuf(LineMap(plugin.name, item_path, "d"), lines[i])]))
SeedContent ==
    IF created[1].data.kind = "Stdin" THEN stdin ELSE fs[created[1].data.path]

WorkPaths == {p \in DOMAIN fs \cup dirs : Len(p) >= 2}

\* C9: once join() has returned and no thread is handling anything, no
\* file and no directory is left under the working directory.
C9_Hygiene == (join_pc = "done" /\ Quiescent) => WorkPaths = {}

\* C10: once an output worker has read the file of an Output File(path) to
\* its end and is done with the Output, the file is gone.
C10_OutputFileDeleted ==
    \A p \in read_out :
        (\A o \in DOMAIN oh : oh[o].pc \in {"handle", "copy"} => oh[o].output.data.path # p)
            => p \notin DOMAIN fs

\* a directory tree: no symbolic link below the root
NoLinks == \A p \in TreePaths : w_tree[p] # "link"
\* the pairs walk_dir is to report: for every regular file of the tree its
\* path through the root and its path below the root behind parent_path
FilePairs ==
    {<<WalkRoot \o p, WalkParent \o p>> : p \in {q \in TreePaths : w_tree[q] = "file"}}

\* C19: on a directory tree, when walk_dir has returned it has called send
\* exactly once for every regular file below the root and for nothing
\* else, with parent_path joined with the file's path below the root.
C19_WalkComplete ==
    (w_pc = "done" /\ w_tree # <<>> /\ NoLinks) =>
        /\ {w_sent[i] : i \in DOMAIN w_sent} = FilePairs
        /\ Len(w_sent) = Cardinality(FilePairs)
\* the walk of a tree with a file at the root, a file in a directory and
\* an entry that is neither has returned
C19_Witness ==
    /\ w_pc = "done" /\ w_tree # <<>> /\ NoLinks
    /\ \E p, q, r \in TreePaths :
          /\ Len(p) = 1 /\ w_tree[p] = "file"
          /\ Len(q) = 2 /\ w_tree[q] = "file"
          /\ w_tree[r] = "special"
    /\ Len(w_sent) >= 2

\* C20: walk_dir reads no directory more than once, whatever symbolic
\* links the file system below the root has.
C20_WalkNoRevisit ==
    \A i, j \in DOMAIN w_seen : i # j => w_seen[i] # w_seen[j]

\* the children whose input file run_task made of a stream
TempInputs ==
    {c \in DOMAIN child : /\ child[c].plugin.input_path.kind = "File"
                          /\ child[c].plugin.input_path.path = GenPath(c, 1)}
\* the paths of the files Inputs and Outputs name
NamedPaths ==
    {created[i].data.path : i \in {j \in DOMAIN created : created[j].data.kind = "File"}}
    \cup {output_queue[i].data.path :
             i \in {j \in DOMAIN output_queue : output_queue[j].data.kind = "File"}}
    \cup {oh[o].output.data.path : o \in {x \in DOMAIN oh : oh[x].output.data.kind = "File"}}

DirsRead ==
    {d \in dirs :
        /\ \E c \in DOMAIN child : /\ ~child[c].plugin.unpacker
                                   /\ child[c].plugin.output_path.kind = "Dir"
                                   /\ child[c].plugin.output_path.path = d
        /\ FilesUnder(d) # {}
        /\ FilesUnder(d) \subseteq read_out
        /\ \A i \in DOMAIN output_queue : output_queue[i].data.path \notin FilesUnder(d)
        /\ \A o \in DOMAIN oh : oh[o].output.data.path \notin FilesUnder(d)}

\* C12: once every file of the output directory of a plugin that is no
\* unpacker has been read by its output handler, the directory is gone.
C12_OutputDirRemoved == DirsRead = {}

\* the prefix pre_process classifies for the Input a handler holds
HandledPrefix(h) ==
    IF h.input.data.kind = "File" THEN Take(fs[h.input.data.path], PREFIX)
    ELSE IF h.input.data.kind = "Stdin" THEN Take(stdin, PREFIX)
    ELSE h.buf
\* a prefix none of the headers of the configurations matches: ^u, ^.d and
\* the hex ^..64
Unclassified(buf) ==
    /\ ~(Len(buf) >= 1 /\ buf[1] = "u")
    /\ ~(Len(buf) >= 2 /\ buf[2] = "d")

\* C13: when a handler is done classifying an Input whose prefix matches
\* no header, it is done with the Input: it goes on to its idle marker (an
\* ad-hoc thread ends), and the step spawns no child, sends no Input and no
\* Output, makes no TaskId and writes nothing to the sink.
C13_SkipOnMiss ==
    [][\A t \in DOMAIN ih :
          (/\ ih[t].pc = "handle"
           /\ t \in DOMAIN ih' => ih'[t].pc # "handle"
           /\ ih[t].input.data.kind = "File" => ih[t].input.data.path \in DOMAIN fs
           /\ Unclassified(HandledPrefix(ih[t])))
          => /\ t \in DOMAIN ih' => ih'[t].pc = "idle" /\ ih'[t].input = NoInput
             /\ UNCHANGED <<child, input_queue, output_queue, created, last_id, exit>>]_vars
\* the one item of the run matched no header, and the run has come to its
\* end without a child and without a record
C13_Witness ==
    /\ seeded = 1
    /\ Unclassified(SeedContent)
    /\ join_pc = "done"
    /\ Quiescent
    /\ child = <<>>
    /\ exit = <<>>

\* C17: no Input in the input queue holds a child's stdout pipe; a thread
\* that handles such an Input is an ad-hoc thread and every other Input is
\* handled by a pool worker; and the step that makes an Input of a child's
\* stdout leaves it out of the queue and starts an ad-hoc thread that holds
\* it, while the step that makes Inputs of files appends them to the queue.
C17_PipeHandoff ==
    /\ [](/\ \A i \in DOMAIN input_queue : input_queue[i].data.kind # "Stdout"
          /\ \A t \in DOMAIN ih :
                ih[t].input # NoInput => (ih[t].input.data.kind = "Stdout" <=> IsAdHoc(t)))
    /\ [][\A i \in DOMAIN created' \ DOMAIN created :
             IF created'[i].data.kind = "Stdout"
             THEN /\ input_queue' = input_queue
                  /\ \E t \in DOMAIN ih' \ DOMAIN ih :
                        IsAdHoc(t) /\ ih'[t].input = created'[i]
             ELSE /\ \E j \in DOMAIN input_queue' \ DOMAIN input_queue :
                        input_queue'[j] = created'[i]
                  /\ DOMAIN ih' \subseteq DOMAIN ih]_vars
\* an ad-hoc thread has taken the stdout of an unpacker through to a task
\* of its own
C17_Witness ==
    \E t \in DOMAIN ih :
        /\ IsAdHoc(t)
        /\ ih[t].input.data.kind = "Stdout"
        /\ ih[t].pc = "wait"

\* the children that have been spawned and not yet waited for: their
\* run_task stands between spawn() and the return of wait()
Unwaited ==
    {c \in DOMAIN child :
        \E t \in DOMAIN ih : /\ ih[t].pc \in {"route", "feed", "wait"}
                             /\ ih[t].input # NoInput
                             /\ TaskOf(ih[t]) = c}
\* the input workers of the pool
PoolWorkers == {t \in DOMAIN ih : ~IsAdHoc(t)}

\* C18: the children spawned and not yet waited for are never more than
\* the input workers of the pool.
C18_SubprocessCap == Cardinality(Unwaited) <= Cardinality(PoolWorkers)

\* C14: a record that is written to the sink is never of a task whose
\* run_task has returned an error.
C14_FailedTaskSilent ==
    [][exit' # exit =>
         \A o \in DOMAIN oh :
            oh'[o] # oh[o] =>
               \A c \in DOMAIN child :
                  c = oh[o].output.task_id[2] => ~child[c].task_failed]_vars

\* a handler's File::open fails: the file its Input or Output names is not
\* there
InputOpenFails(t) ==
    /\ ih[t].pc = "handle"
    /\ ih[t].input.data.kind = "File"
    /\ ih[t].input.data.path \notin DOMAIN fs
OutputOpenFails(o) ==
    /\ oh[o].pc = "handle"
    /\ oh[o].output.data.kind = "File"
    /\ oh[o].output.data.path \notin DOMAIN fs

WaitReturns(t) ==
    /\ t \in DOMAIN ih
    /\ ih[t].pc = "wait"
    /\ t \in DOMAIN ih' => ih'[t].pc # "wait"

\* C16: whatever the status the child exited with, the step in which
\* wait() returns removes the input file run_task made, and sends on the
\* output file or the files found in the output directory: as Outputs of
\* the task for a plugin that is no unpacker, as new Inputs for an unpacker.
C16_StatusIgnored ==
    [][\A t \in DOMAIN ih :
          WaitReturns(t) =>
             LET plugin == ih[t].ppi.plugin
                 opath == plugin.output_path
                 found == IF opath.kind = "File" THEN {opath.path}
                          ELSE IF opath.kind = "Dir" THEN FilesUnder(opath.path)
                          ELSE {}
             IN  /\ ~ih[t].input_exists => plugin.input_path.path \notin DOMAIN fs'
                 /\ IF plugin.unpacker
                    THEN /\ {created'[i].data.path : i \in DOMAIN created' \ DOMAIN created}
                               = found
                         /\ Len(input_queue') = Len(input_queue) + Cardinality(found)
                         /\ output_queue' = output_queue
                    ELSE /\ {output_queue'[i].data.path :
                                i \in DOMAIN output_queue' \ DOMAIN output_queue} = found
                         /\ \A i \in DOMAIN output_queue' \ DOMAIN output_queue :
                               output_queue'[i].task_id = ih[t].input.task_id
                         /\ input_queue' = input_queue /\ created' = created]_vars
\* a child has exited with status 1 and its output file has been sent on
\* and read to its end
C16_Witness ==
    \E c \in DOMAIN child :
        /\ child[c].status = 1 /\ child[c].left
        /\ child[c].plugin.output_path.kind = "File"
        /\ child[c].plugin.output_path.path \in read_out

\* ------------------------------------------------------------ C21 (SpecPrep)
\* what the claim says replace_arg leaves behind: the same list with every
\* element equal to var replaced by rep
Pointwise(args, var, rep) == [i \in DOMAIN args |-> IF args[i] = var THEN rep ELSE args[i]]

InputReplaced ==
    IF InputTypeOf(pr_plugin) = "file"
    THEN Pointwise(pr_plugin.args, Arg("$INPUT"), pr_proc.env.INPUT)
    ELSE pr_plugin.args

\* C21: replace_arg replaces every argument that is exactly the token by
\* the path and leaves every other argument, also one that only contains the
\* token, as it was; the list keeps its length and its order, whether the
\* token occurs several times or not at all.
C21_ReplaceArg ==
    /\ pr_pc = "output" => pr_proc.args = InputReplaced
    /\ (pr_pc \in {"build", "done"} /\ OutputTypeOf(pr_plugin) # "stdout")
        => pr_proc.args = Pointwise(InputReplaced, Arg("$OUTPUT"), pr_proc.output_path)
    /\ (pr_pc \in {"build", "done"} /\ OutputTypeOf(pr_plugin) = "stdout")
        => pr_proc.args = InputReplaced
    /\ pr_pc # "idle" => Len(pr_proc.args) = Len(pr_plugin.args)

C21_Witness ==
    /\ pr_pc = "done"
    /\ pr_plugin.args = <<Arg("$INPUT"), Arg("x$INPUT"), Arg("$INPUT")>>
    /\ InputTypeOf(pr_plugin) = "file"
    /\ pr_proc.args = <<pr_proc.env.INPUT, Arg("x$INPUT"), pr_proc.env.INPUT>>
    /\ pr_proc.env.INPUT # NoPath

\* ------------------------------------------------------------ C22 (SpecPrep)
FileInput == pr_plugin.input \in {None, "file"}
InputResolved == pr_pc \in {"output", "build", "done"}

\* C22: with input=file (the default) and an existing input file, that
\* file's path is exported as INPUT and put in place of every $INPUT
\* argument, no path is generated and no temporary input path is recorded;
\* with input=file and no input file, one fresh path is generated and is the
\* value of INPUT, of every $INPUT argument and of the temporary input path;
\* with input=stdin, INPUT is not set, no argument changes and no path is
\* recorded.
C22_InputResolution ==
    /\ (InputResolved /\ FileInput /\ pr_infile # NoPath) =>
        /\ pr_proc.env.INPUT = pr_infile
        /\ pr_proc.temp_input_path = NoPath
        /\ pr_pc = "output" =>
            /\ pr_paths = <<>>
            /\ pr_proc.args = Pointwise(pr_plugin.args, Arg("$INPUT"), pr_infile)
    /\ (InputResolved /\ FileInput /\ pr_infile = NoPath) =>
        /\ pr_paths # <<>>
        /\ pr_proc.env.INPUT = pr_paths[1]
        /\ pr_proc.temp_input_path = pr_paths[1]
        /\ pr_pc = "output" =>
            /\ Len(pr_paths) = 1
            /\ pr_proc.args = Pointwise(pr_plugin.args, Arg("$INPUT"), pr_paths[1])
    /\ (InputResolved /\ ~FileInput) =>
        /\ pr_proc.env.INPUT = NoPath
        /\ pr_proc.temp_input_path = NoPath
        /\ pr_proc.stdin = "piped"
        /\ pr_pc = "output" =>
            /\ pr_paths = <<>>
            /\ pr_proc.args = pr_plugin.args

C22_Witness ==
    /\ pr_pc = "done"
    /\ pr_plugin.input = None
    /\ pr_infile = NoPath
    /\ pr_plugin.args = <<Arg("--baz"), Arg("$INPUT")>>
    /\ pr_proc.args = <<Arg("--baz"), pr_proc.temp_input_path>>
    /\ pr_proc.temp_input_path # NoPath

\* ------------------------------------------------------------ C24 (SpecPrep)
\* C24: no two calls of gen_path return the same path, so that the
\* temporary input path and the output path of the prepared processes are
\* pairwise different.
C24_PathsUnique ==
    \A i, j \in DOMAIN pr_paths : i # j => pr_paths[i] # pr_paths[j]

\* C24, as the code has it: two calls of gen_path return the same path only
\* when rand::random gave both the same value; every path is the working
\* directory followed by the HexWidth hex digits of the value, and different
\* values give different paths.
C24_PathsInjective ==
    /\ Len(pr_paths) = Len(pr_draws)
    /\ \A i \in DOMAIN pr_paths :
        /\ Len(pr_paths[i]) = Len(CurrentDir) + HexWidth
        /\ SubSeq(pr_paths[i], 1, Len(CurrentDir)) = CurrentDir
    /\ \A i, j \in DOMAIN pr_paths :
        pr_draws[i] # pr_draws[j] => pr_paths[i] # pr_paths[j]

C24_Witness ==
    /\ pr_pc = "done"
    /\ Len(pr_paths) = 2
    /\ pr_draws[1] # pr_draws[2]
    /\ pr_proc.temp_input_path = pr_paths[1]
    /\ pr_proc.output_path = pr_paths[2]
    /\ pr_proc.temp_input_path # pr_proc.output_path

\* ---------------------------------------------------------------- C25 (Spec)
\* the Outputs that are in the output queue or in the hands of a worker
HeldOutputs == {oh[o].output : o \in {w \in DOMAIN oh : oh[w].pc # "recv"}}
FlyingOutputs == {output_queue[i] : i \in DOMAIN output_queue} \cup HeldOutputs

\* C25: the first thing run_task makes of a child is the LogStderr Output,
\* and it sends it before any other Output of the task and before any Input
\* it derives from the task: the LogStderr is the first of the hand-offs and
\* the only one of its kind, no Output of a task is under way before the
\* LogStderr of the task was sent, and in the output queue no other Output
\* of the task is ahead of it.
C25_StderrFirst ==
    /\ \A c \in DOMAIN child :
        /\ child[c].pipes # <<>>
        /\ child[c].pipes[1].data.kind = "LogStderr"
        /\ child[c].pipes[1].data.child = c
        /\ \A i \in 2..Len(child[c].pipes) : child[c].pipes[i].data.kind # "LogStderr"
    /\ \A x \in FlyingOutputs :
        /\ x.task_id[2] \in DOMAIN child
        /\ child[x.task_id[2]].pipes[1].task_id = x.task_id
    /\ \A i, j \in DOMAIN output_queue :
        (i < j /\ output_queue[i].task_id = output_queue[j].task_id)
            => output_queue[j].data.kind # "LogStderr"
    /\ \A i \in DOMAIN created :
        created[i].data.kind = "Stdout" =>
            /\ created[i].data.child \in DOMAIN child
            /\ child[created[i].data.child].pipes[2] = created[i]

C25_Witness ==
    \E c \in DOMAIN child :
        /\ Len(output_queue) = 2
        /\ output_queue[1].data = OutLogStderr(c)
        /\ output_queue[2].data = OutStdout(c)
        /\ child[c].pipes = output_queue

\* ---------------------------------------------------------------- C26 (Spec)
\* the handlers that are inside run_task for the child c
RunningTask(c) ==
    {t \in DOMAIN ih : ih[t].pc \in {"route", "feed", "wait"} /\ TaskOf(ih[t]) = c}

\* C26: for a plugin that reads its stdin, run_task has handed the stderr
\* and the stdout of the child to their consumers before it writes the
\* first byte to the child's stdin, and the stdin is closed, all data
\* written, before run_task waits for the child and takes it for exited.
C26_PipesBeforeStdin ==
    \A c \in DOMAIN child :
        child[c].plugin.input_path.kind = "Stdin" =>
            /\ (child[c].in_done \/ child[c].content # <<>> \/ child[c].fed_at # -1) =>
                /\ child[c].fed_at = 2
                /\ child[c].pipes[1].data.kind = "LogStderr"
                /\ child[c].pipes[2].data.kind \in {"Stdout", "LogStdout"}
                /\ child[c].pipes[2].data.child = c
            /\ \A t \in RunningTask(c) : ih[t].pc = "wait" => child[c].in_done
            /\ RunningTask(c) = {} => child[c].in_done
            /\ child[c].exited => child[c].in_done

C26_Witness ==
    \E c \in DOMAIN child :
        /\ child[c].plugin.input_path.kind = "Stdin"
        /\ child[c].fed_at = 2
        /\ child[c].content # <<>>
        /\ child[c].exited
        /\ RunningTask(c) = {}

\* ---------------------------------------------------------------- C27 (Spec)
\* who holds a pipe of the child c right now: Inputs in the input queue or
\* in a handler, Outputs in the output queue or in a worker
PipeHolders(c, kinds) ==
    {<<"input_queue", i>> : i \in {k \in DOMAIN input_queue :
        input_queue[k].data.kind \in kinds /\ input_queue[k].data.child = c}}
    \cup {<<"ih", t>> : t \in {k \in DOMAIN ih :
        ih[k].input.data.kind \in kinds /\ ih[k].input.data.child = c}}
    \cup {<<"output_queue", i>> : i \in {k \in DOMAIN output_queue :
        output_queue[k].data.kind \in kinds /\ output_queue[k].data.child = c}}
    \cup {<<"oh", o>> : o \in {k \in DOMAIN oh :
        oh[k].output.data.kind \in kinds /\ oh[k].output.data.child = c}}
IsOutput(x) == "item_type" \in DOMAIN x

\* C27: the stdout of a child goes to one consumer and no more: an Input
\* with the ChildStdout when the plugin writes its output to stdout and is an
\* unpacker, an Output Stdout when it writes to stdout and is no unpacker, an
\* Output LogStdout when its output is a file or a directory; its stderr
\* goes to one Output LogStderr; no pipe is ever in two hands.
C27_OneConsumer ==
    \A c \in DOMAIN child :
        LET plugin == child[c].plugin
            handed == child[c].pipes
        IN  /\ Len(handed) \in {1, 2}
            /\ IsOutput(handed[1]) /\ handed[1].data.kind = "LogStderr"
            /\ handed[1].data.child = c
            /\ Len(handed) = 2 =>
                /\ handed[2].data.child = c
                /\ (plugin.output_path.kind = "Stdout" /\ plugin.unpacker)
                    => ~IsOutput(handed[2]) /\ handed[2].data.kind = "Stdout"
                /\ (plugin.output_path.kind = "Stdout" /\ ~plugin.unpacker)
                    => IsOutput(handed[2]) /\ handed[2].data.kind = "Stdout"
                /\ plugin.output_path.kind # "Stdout"
                    => IsOutput(handed[2]) /\ handed[2].data.kind = "LogStdout"
            /\ RunningTask(c) = {} => Len(handed) = 2
            /\ Cardinality(PipeHolders(c, {"LogStderr"})) <= 1
            /\ Cardinality(PipeHolders(c, {"Stdout", "LogStdout"})) <= Len(handed) - 1

C27_Witness ==
    \E c \in DOMAIN child :
        /\ Len(child[c].pipes) = 2
        /\ child[c].plugin.output_path.kind = "Dir"
        /\ PipeHolders(c, {"LogStderr"}) \cap ({"oh"} \X DOMAIN oh) # {}
        /\ PipeHolders(c, {"LogStdout"}) \cap ({"output_queue"} \X DOMAIN output_queue) # {}

\* ---------------------------------------------------------------- C28 (Spec)
\* the Inputs and the Outputs a step has made
NewCreated == [i \in 1..(Len(created') - Len(created)) |-> created'[Len(created) + i]]
NewQueued ==
    [i \in 1..(Len(input_queue') - Len(input_queue)) |-> input_queue'[Len(input_queue) + i]]
NewOutputs ==
    [i \in 1..(Len(output_queue') - Len(output_queue)) |->
        output_queue'[Len(output_queue) + i]]
Range(f) == {f[i] : i \in DOMAIN f}

\* C28: when wait() has returned, run_task makes of an output file one
\* Input File(path, temp=true) with the task's item_path (unpacker) or one
\* Output File(path) (otherwise); of an output directory one Input
\* File(p, temp=true) for every file in it, its item_path the task's
\* followed by the path of the file below the directory (unpacker), or one
\* Output File(p) for every file, with the task's own item_path
\* (otherwise); of an output on stdout nothing.  The Input made of an
\* unpacker's stdout has the task's item_path.
C28_Materialise ==
    /\ [](\A c \in DOMAIN child :
            (Len(child[c].pipes) = 2 /\ ~IsOutput(child[c].pipes[2]))
                => child[c].pipes[2].item_path = child[c].pipes[1].item_path)
    /\ [][\A t \in DOMAIN ih :
          WaitReturns(t) =>
             LET h == ih[t]
                 plugin == h.ppi.plugin
                 opath == plugin.output_path
                 found == IF opath.kind = "File" THEN {opath.path}
                          ELSE IF opath.kind = "Dir" THEN FilesUnder(opath.path)
                          ELSE {}
                 below(p) == IF opath.kind = "Dir"
                             THEN SubSeq(p, Len(opath.path) + 1, Len(p)) ELSE <<>>
                 input(p) == [item_path |-> h.input.item_path \o below(p),
                              data |-> [kind |-> "File", path |-> p, temp |-> TRUE,
                                        child |-> -1]]
                 output(p) == OutputNew(h.input.task_id, h.input.item_path, h.ppi.item_type,
                                        plugin.plugin_name,
                                        [kind |-> "File", path |-> p, child |-> -1])
             IN  IF plugin.unpacker
                 THEN /\ Len(NewCreated) = Cardinality(found)
                      /\ {[item_path |-> x.item_path, data |-> x.data] : x \in Range(NewCreated)}
                            = {input(p) : p \in found}
                      /\ NewQueued = NewCreated
                      /\ NewOutputs = <<>>
                 ELSE /\ Len(NewOutputs) = Cardinality(found)
                      /\ Range(NewOutputs) = {output(p) : p \in found}
                      /\ NewCreated = <<>> /\ NewQueued = <<>>]_vars

C28_Witness ==
    \E i, j \in DOMAIN created :
        /\ i < j
        /\ created[i].data.temp /\ created[j].data.temp
        /\ created[i].data.path # created[j].data.path
        /\ Front(created[i].data.path) = Front(created[j].data.path)
        /\ Front(created[i].item_path) = Front(created[j].item_path)
        /\ Last(created[i].item_path) = Last(created[i].data.path)
        /\ Last(created[j].item_path) = Last(created[j].data.path)

\* ---------------------------------------------------------------- C29 (Spec)
\* the Input is in the input queue or in the hands of a handler
Pending(input) ==
    \/ \E i \in DOMAIN input_queue : input_queue[i] = input
    \/ \E t \in DOMAIN ih : ih[t].input = input
FileInputs(temp) ==
    {created[i] : i \in {k \in DOMAIN created :
        created[k].data.kind = "File" /\ created[k].data.temp = temp}}

\* C29: the file of an Input File(path, temp=true) is there until its
\* handler is done with it and gone after: after the exit of the child when
\* a plugin was run on it, and also when the item was skipped.  The file of
\* an Input File(path, temp=false) is never deleted and never changed.
C29_TempInputRemoved ==
    /\ [](\A x \in FileInputs(TRUE) :
            /\ ~Pending(x) => x.data.path \notin DOMAIN fs
            /\ Pending(x) => x.data.path \in DOMAIN fs
            /\ \A t \in DOMAIN ih :
                (ih[t].input = x /\ ih[t].pc \in {"route", "feed", "wait"}
                    /\ x.data.path \notin DOMAIN fs) => child[TaskOf(ih[t])].exited)
    /\ [](\A x \in FileInputs(FALSE) : x.data.path \in DOMAIN fs)
    /\ [][\A x \in FileInputs(FALSE) : fs'[x.data.path] = fs[x.data.path]]_vars

\* a temporary Input was given to a plugin, the child has exited and the
\* file is gone, and the seed file is there
C29_Witness ==
    \E x \in FileInputs(TRUE) :
        /\ ~Pending(x) /\ x.data.path \notin DOMAIN fs
        /\ x.task_id[2] \in DOMAIN child
        /\ child[x.task_id[2]].exited
        /\ FileInputs(FALSE) # {}

\* ------------------------------------------------------------- C30 (SpecErr)
\* the handler t leaves run_task with an error: from the spawn, or from the
\* copy to the child's stdin
Fails(t) ==
    /\ t \in DOMAIN ih
    /\ ih[t].pc \in {"run", "feed"}
    /\ t \in DOMAIN ih' => ih'[t].pc = "idle"

\* C30: when the handler of an Input returns with an error, what it made
\* before the error is gone: the input file made of a stream, the output
\* directory, and the file of an Input File(path, temp=true).
C30_CleanupOnFailure ==
    [][\A t \in DOMAIN ih :
          Fails(t) =>
             LET h == ih[t]
                 plugin == h.ppi.plugin
             IN  /\ (plugin.input_path.kind = "File" /\ h.input.data.kind # "File")
                        => plugin.input_path.path \notin DOMAIN fs'
                 /\ plugin.output_path.kind = "Dir" => plugin.output_path.path \notin dirs'
                 /\ (h.input.data.kind = "File" /\ h.input.data.temp)
                        => h.input.data.path \notin DOMAIN fs']_vars

\* ------------------------------------------------------------- C23 (SpecTwo)
\* the first k bytes of r are its first line
FirstLine(r, k) ==
    /\ k \in 1..Len(r)
    /\ r[k] = NEWLINE \/ k = Len(r)
    /\ \A j \in 1..(k - 1) : r[j] # NEWLINE
IsSuffix(s, r) == Len(s) <= Len(r) /\ s = SubSeq(r, Len(r) - Len(s) + 1, Len(r))

\* C23: the records made of the lines of one child appear in the sink in
\* the order of the lines, whatever other workers write in between: the
\* sink only grows at its end; every record a worker adds is the record of
\* the first line its source has left, and that line is what the source
\* loses; the source is the output file from its first byte, or the stdout
\* pipe, which hands out what the child wrote in the order it wrote it.
C23_RecordOrder ==
    /\ [][Len(exit') >= Len(exit) /\ SubSeq(exit', 1, Len(exit)) = exit]_vars
    /\ [][exit' # exit =>
            \E o \in DOMAIN oh :
                LET out == oh[o].output
                    c == out.data.child
                    line == LineMap(out.plugin_name, out.item_path, out.item_type)
                    record(in_buf) ==
                        <<[b |-> "object", v |-> MapInsert(line, "data", LineData(in_buf))],
                          [b |-> "newline", v |-> <<>>]>>
                IN  /\ oh[o].pc \in {"handle", "copy"}
                    /\ out.data.kind \in {"File", "Stdout"}
                    /\ IF out.data.kind = "File"
                       THEN \E k \in 1..Len(oh[o].reader) :
                               /\ FirstLine(oh[o].reader, k)
                               /\ exit' = exit \o record(SubSeq(oh[o].reader, 1, k))
                               /\ oh'[o].reader
                                    = SubSeq(oh[o].reader, k + 1, Len(oh[o].reader))
                       ELSE /\ child[c].pipe # <<>>
                            /\ exit' = exit \o record(Head(child[c].pipe))
                            /\ child'[c].pipe = Tail(child[c].pipe)]_vars
    /\ [][\A o \in DOMAIN oh :
            (oh[o].pc = "handle" /\ oh[o].output.data.kind = "File" /\ oh'[o].pc = "copy")
                => oh'[o].reader = fs[oh[o].output.data.path]]_vars
    /\ [][\A c \in DOMAIN child :
            child[c].in_done =>
                IsSuffix(Flatten(child'[c].pipe \o child'[c].out),
                         Flatten(child[c].pipe \o child[c].out))]_vars

\* the two lines of one output file are in the sink, in between them or
\* around them the record of the other file, written by the other worker
C23_Witness ==
    /\ Len(exit) = 6
    /\ \E o1, o2 \in DOMAIN oh :
          /\ o1 # o2
          /\ oh[o1].pc = "copy" /\ oh[o2].pc = "copy"
          /\ oh[o1].output.data.kind = "File" /\ oh[o2].output.data.kind = "File"
          /\ Len(LinesOf(fs[oh[o1].output.data.path])) = 2
          /\ oh[o1].reader = <<>> /\ oh[o2].reader = <<>>

\* --------------------------------------------------------- C31 (SpecWalkErr)
IsPrefix(s, r) == Len(s) <= Len(r) /\ s = SubSeq(r, 1, Len(s))
\* the place of the path x in the sequence of paths, 0 when it is not there
PlaceIn(order, x) ==
    IF \E i \in DOMAIN order : order[i] = x
    THEN CHOOSE i \in DOMAIN order : order[i] = x ELSE 0

\* C31: when read_dir or one of the entries fails, walk_dir returns the
\* error and does nothing more: no directory is read after it and send is
\* not called again; of the directory it was in, send was called only for
\* entries that came before the failing one; the calls of send made before
\* stay as they were.
C31_WalkFailure ==
    /\ [][IsPrefix(w_sent, w_sent')]_vars
    /\ [][w_pc = "err" =>
            /\ w_pc' = "err" /\ w_sent' = w_sent /\ w_seen' = w_seen]_vars
    /\ [](w_pc = "err" =>
            /\ w_err # NoPath
            /\ \A i \in DOMAIN w_sent : w_sent[i][1] # w_err
            /\ \A i \in DOMAIN w_sent :
                PlaceIn(w_order, w_sent[i][1]) > 0
                    => PlaceIn(w_order, w_sent[i][1]) < PlaceIn(w_order, w_err))
    /\ [](w_pc = "done" => w_err = NoPath)

\* the second entry of a directory failed: the first, a file, was sent, the
\* second, a file as well, was not
C31_Witness ==
    /\ w_pc = "err"
    /\ Len(w_order) = 2
    /\ w_err = w_order[2]
    /\ IsFile(w_order[1]) /\ IsFile(w_order[2])
    /\ w_sent # <<>>
    /\ Last(w_sent)[1] = w_order[1]

\* ------------------------------------------------------------- C32 (SpecOut)
\* C32: the text that is parsed as JSON or emitted as the string payload of
\* a line is the line less its trailing carriage return and line feed and
\* nothing else: a line that is not JSON is in the data field with its
\* leading characters and its trailing spaces and tabs.
C32_LineStripping ==
    (co_line # <<>> /\ ~JsonValid(StripCRLF(co_line))) =>
        /\ co_exit[Len(co_exit) - 1].v["data"].t = "string"
        /\ co_exit[Len(co_exit) - 1].v["data"].v = StripCRLF(co_line)

\* ---------------------------------------------------------------- C33 (Spec)
\* where a worker is while its handler runs
Handling == {"handle", "run", "route", "feed", "wait", "copy"}
\* one step of a pool worker, from pc to pc2, as run_thread allows it
LoopStep(pc, pc2) ==
    /\ (pc = "recv" /\ pc2 # pc) => pc2 = "busy"
    /\ (pc = "busy" /\ pc2 # pc) =>
            pc2 = "handle" /\ activity_queue' = Append(activity_queue, TRUE)
    /\ (pc \in Handling /\ pc2 # pc) => pc2 \in Handling \cup {"idle"}
    /\ (pc = "idle" /\ pc2 # pc) =>
            pc2 = "recv" /\ activity_queue' = Append(activity_queue, FALSE)
\* the pool workers that send a marker in this step
Marking(from, to) ==
    {<<"in", t>> : t \in {w \in DOMAIN ih : ~IsAdHoc(w) /\ ih[w].pc = from
                                             /\ ih'[w].pc = to}}
    \cup {<<"out", o>> : o \in {w \in DOMAIN oh : oh[w].pc = from /\ oh'[w].pc = to}}

\* C33: every pool worker goes round receive, busy, handler, idle: it
\* sends busy after it has received a message and before the handler runs,
\* and idle after the handler has returned and before it receives again; a
\* marker comes onto the activity queue only in these two steps, true for
\* busy and false for idle, so that the markers of one worker alternate,
\* busy first.
C33_WorkerLoop ==
    /\ [][/\ \A t \in DOMAIN ih :
                ~IsAdHoc(t) => t \in DOMAIN ih' /\ LoopStep(ih[t].pc, ih'[t].pc)
          /\ \A o \in DOMAIN oh : LoopStep(oh[o].pc, oh'[o].pc)
          /\ Len(activity_queue') > Len(activity_queue) =>
                \/ /\ activity_queue' = Append(activity_queue, TRUE)
                   /\ Cardinality(Marking("busy", "handle")) = 1
                   /\ Marking("idle", "recv") = {}
                \/ /\ activity_queue' = Append(activity_queue, FALSE)
                   /\ Cardinality(Marking("idle", "recv")) = 1
                   /\ Marking("busy", "handle") = {}]_vars
    /\ [](\A t \in DOMAIN ih :
            ~IsAdHoc(t) => (ih[t].pc \in {"recv", "idle"} <=> ih[t].input = NoInput))

\* the input worker and the output worker have been round the loop and
\* are at recv again, their markers read by join
C33_Witness ==
    /\ \E t \in DOMAIN ih : ~IsAdHoc(t) /\ ih[t].pc = "recv"
    /\ \A o \in DOMAIN oh : oh[o].pc = "recv"
    /\ created # <<>> /\ input_queue = <<>>
    /\ exit # <<>> /\ output_queue = <<>>
    /\ activity_queue = <<>>
    /\ active_threads = 0

\* ------------------------------------------------------------- C34 (SpecErr)
\* the handlers that are about to spawn the child of the task c
Spawning(c) == {t \in DOMAIN ih : ih[t].pc = "run" /\ TaskOf(ih[t]) = c}
\* the task numbers of the Inputs that wait in the input queue
Queued == {input_queue[i].task_id[2] : i \in DOMAIN input_queue}

\* C34: nothing is tried twice.  A handler that is about to spawn has no
\* child yet for its task, each child comes of one spawn of the one handler
\* of its task, and a handler gets an Input only off the queue and gives it
\* up only for good; and the Inputs that come onto the input queue or into
\* a thread of their own are new ones, with a fresh task number, never one
\* that a handler has held, whether its task has failed or not.
C34_NoRetry ==
    /\ [](/\ \A t \in DOMAIN ih : ih[t].pc = "run" => TaskOf(ih[t]) \notin DOMAIN child
          /\ \A c \in DOMAIN child : c \notin Queued /\ c < last_id
          /\ \A t, u \in DOMAIN ih :
                (t # u /\ ih[t].input # NoInput) => ih[t].input # ih[u].input
          /\ \A t \in DOMAIN ih : ih[t].input # NoInput =>
                TaskOf(ih[t]) \notin Queued /\ TaskOf(ih[t]) < last_id)
    /\ [][/\ \A c \in DOMAIN child' \ DOMAIN child : Cardinality(Spawning(c)) = 1
          /\ \A c \in DOMAIN child : c \in DOMAIN child'
          /\ \A n \in Queued' \ Queued : n >= last_id
          /\ \A t \in DOMAIN ih' \ DOMAIN ih : TaskOf(ih'[t]) >= last_id
          /\ \A t \in DOMAIN ih \cap DOMAIN ih' :
                ih'[t].input # ih[t].input =>
                    \/ ih'[t].input = NoInput
                    \/ ih[t].input = NoInput /\ ih'[t].input = Head(input_queue)
                                             /\ input_queue' = Tail(input_queue)]_vars

\* a task has failed after its spawn, its handler is done with it and the
\* worker waits for the next Input with the queue empty, while a later task
\* has a child of its own
C34_Witness ==
    \E c \in DOMAIN child :
        /\ child[c].task_failed
        /\ \A t \in DOMAIN ih : ~IsAdHoc(t) => ih[t].pc = "recv"
        /\ input_queue = <<>>
        /\ \E d \in DOMAIN child : d > c

\* ------------------------------------------------------------- C35 (SpecTwo)
\* the pool workers: the input workers and the output workers
AllWorkers ==
    {<<"in", t>> : t \in {w \in DOMAIN ih : ~IsAdHoc(w)}}
    \cup {<<"out", o>> : o \in DOMAIN oh}
\* the worker is between its busy marker and its idle marker
Marked ==
    {<<"in", t>> : t \in {w \in DOMAIN ih : ~IsAdHoc(w) /\ ih[w].pc \in Handling \cup {"idle"}}}
    \cup {<<"out", o>> : o \in {w \in DOMAIN oh : oh[w].pc \in Handling \cup {"idle"}}}
\* busy markers less idle markers in the first n markers of q
RECURSIVE Balance(_, _)
Balance(q, n) ==
    IF n = 0 THEN 0 ELSE Balance(q, n - 1) + (IF q[n] THEN 1 ELSE -1)

\* C35: the counter of join() never goes below 0 and never above the number
\* of the pool workers.  With the markers that are still on the activity
\* queue it counts the workers that are between their busy and their idle
\* marker, and whatever part of the queue join() has read there are at
\* least as many busy markers as idle ones, so that join() never takes 1
\* from 0.
C35_CounterInRange ==
    /\ [](/\ join_pc # "panic"
          /\ active_threads >= 0
          /\ active_threads <= Cardinality(AllWorkers)
          /\ \A n \in 0..Len(activity_queue) :
                /\ active_threads + Balance(activity_queue, n) >= 0
                /\ active_threads + Balance(activity_queue, n) <= Cardinality(AllWorkers)
          /\ active_threads + Balance(activity_queue, Len(activity_queue))
                = Cardinality(Marked))
    /\ [][(activity_queue # <<>> /\ ~Head(activity_queue)
              /\ activity_queue' = Tail(activity_queue))
          => active_threads > 0 /\ active_threads' = active_threads - 1]_vars

\* join() has counted two workers busy at once and has the idle marker of
\* one of them next
C35_Witness ==
    /\ join_pc = "recv"
    /\ active_threads = 2
    /\ activity_queue # <<>> /\ ~Head(activity_queue)

\* ----------------------------------------------------------- C36 (SpecSized)
\* the child c cannot go on: it has more to write, its stdout pipe is full,
\* and the Output that holds the pipe waits in the output queue
Starved(c) ==
    /\ ~child[c].exited
    /\ child[c].out # <<>>
    /\ Len(child[c].pipe) = PipeCap
    /\ \E i \in DOMAIN output_queue :
          /\ output_queue[i].data.child = c
          /\ output_queue[i].data.kind \in {"Stdout", "LogStdout"}
\* the output worker o reads the stderr of a child that cannot go on
ReadsStarved(o) ==
    /\ oh[o].pc = "handle"
    /\ oh[o].output.data.kind = "LogStderr"
    /\ oh[o].output.data.child \in DOMAIN child
    /\ Starved(oh[o].output.data.child)

\* C36: with two output workers to an input worker there is no state in
\* which a child is blocked writing to a pipe whose Output waits in the
\* output queue while every output worker is blocked reading a pipe of a
\* child that cannot exit, the children of ad-hoc threads included.
C36_NoPipeDeadlock ==
    ~ /\ \E c \in DOMAIN child : Starved(c)
      /\ \A o \in DOMAIN oh : ReadsStarved(o)

\* ---------------------------------------------------------------- C37 (Spec)
\* C37: the type a handler has found for the prefix of its Input is the
\* type every PreProcessor of the configuration finds for that prefix,
\* whatever the order in which its rule maps hand out their rules, also
\* when the rules of two types match the prefix; and a text rule that
\* matches goes before every hex rule.
C37_ClassifyDeterministic ==
    \A t \in DOMAIN ih :
        ih[t].pc = "run" =>
            /\ \A pp \in PreProcessors(config) :
                  GetFileType(pp, ih[t].buf) = ih[t].ppi.item_type
            /\ \A ty \in DOMAIN config :
                  (~config[ty].header.hex /\ IsMatch(config[ty].header.regex, ih[t].buf))
                      => ~config[ih[t].ppi.item_type].header.hex

\* ----------------------------------------------------------- C38 (SpecCount)
\* the children that are spawned and not waited for
CntUnwaited == {e \in DOMAIN cnt_child : cnt_child[e] \in {"running", "exited"}}

\* C38: the count of ProcessCount::new(max) is never above max; but for
\* the moment between incr() and the spawn it is the number of the children
\* spawned and not waited for, a failed spawn included, so that every incr
\* has its one decr after the wait; and it is 0 once tp.join() has returned.
C38_ProcessCount ==
    /\ cnt_count <= CntMax
    /\ cnt_pc # "spawn" => cnt_count = Cardinality(CntUnwaited)
    /\ cnt_pc = "done" => cnt_count = 0

\* -------------------------------------------------------------- C39 (SpecGlob)
\* C39: when Global::join() has returned no job is queued or active in
\* either pool, every job that was sent, by the caller or by another job,
\* has run to its end, and the sink holds the whole output of every task.
C39_JoinComplete ==
    g_pc = "returned" =>
        /\ \A pool \in GPools : g_queue[pool] = <<>> /\ g_active[pool] = {}
        /\ g_kind = "unpack" => DOMAIN g_child = 0..GFiles
        /\ \A c \in DOMAIN g_child :
              g_child[c].kind \in {"stdout", "file"} => c \in g_sink
====
